---- MODULE Spec2Model ----
(***************************************************************************)
(* Model of the LIACLI backend gateway (src/src/src/backend/main.py): the  *)
(* experiment-body result writer (PATCH .../update-results), the           *)
(* experiment-body read (GET .../body) and the template read               *)
(* (GET /templates), over an eLabFTW store holding one experiment body     *)
(* and one template body.                                                  *)
(*                                                                         *)
(* A Python string is a sequence of one-character strings.  An HTML body   *)
(* is the tree html.parser builds from it: a sequence of top-level nodes,  *)
(*   [kind |-> "text",  txt  |-> string]      character data, kept raw     *)
(*   [kind |-> "table", rows |-> Seq(row)]    a <table> element            *)
(*   [kind |-> "elem",  name |-> n, txt |-> string]  any other element     *)
(*   [kind |-> "marked", txt |-> string]      a marked section <![x]>, on   *)
(*                                            which html.parser may raise  *)
(* a row is a sequence of cells [tag |-> "td"|"th", kids |-> Seq(kid)] and *)
(* a kid is [tag |-> "#text"|"span", style |-> BOOLEAN, txt |-> string]:   *)
(* a text node, or a <span> (with or without a style= attribute) around    *)
(* one text node.                                                          *)
(*                                                                         *)
(* The module also models the registration and experiment endpoints        *)
(* (POST /pesquisadores, POST /initialize, POST /experimentos, GET         *)
(* .../status, GET .../pdf) over the local tables Researcher and           *)
(* Experiment (src/src/backend/database.py, models.py) and the item types, *)
(* items and experiments of eLabFTW (src/src/backend/elab_service.py).     *)
(* The names, titles and bodies kept there are Python strings; a stored    *)
(* role and a password, which the code only compares, are TLA+ strings.    *)
(***************************************************************************)
EXTENDS Integers, Sequences, FiniteSets, TLC

VARIABLES
    researchers,  \* local table Researcher: id -> its row (name, password,
                  \* role, elab_item_id)
    experiments,  \* local table Experiment: id (the agendamento_id) -> its row
                  \* (elab_experiment_id, researcher_id)
    elab,         \* eLabFTW: the item types, the items and the experiments
                  \* the gateway creates there
    expBody,      \* eLabFTW: body of the experiment
    tplBody,      \* eLabFTW: body of the experiment template
    req,          \* the request the last handler served: who asked, the
                  \* "results" sent, the body the handler read from eLabFTW,
                  \* whether eLabFTW answered its calls with success and
                  \* whether BeautifulSoup raised on the body
    resp,         \* the response it gave
    inflight,     \* per client, the call it has in progress when the handlers
                  \* run concurrently: its request, the local variable body
                  \* and what it produced
    norm          \* evaluations of the key derivation on one label: the label,
                  \* the copy evaluated ("parser" or "writer"), the keys its
                  \* evaluations on the label gave and the keys its
                  \* evaluations on the first of those keys gave

vars == <<researchers, experiments, elab, expBody, tplBody, req, resp, inflight, norm>>

----------------------------------------------------------------------------
(* Python str methods and the regular expressions of main.py               *)

Whitespace == {" ", "\n", "\t"}

UpperChars == <<"A","B","C","D","E","F","G","H","I","J","K","L","M",
                "N","O","P","Q","R","S","T","U","V","W","X","Y","Z","Â","É">>

LowerChars == <<"a","b","c","d","e","f","g","h","i","j","k","l","m",
                "n","o","p","q","r","s","t","u","v","w","x","y","z","â","é">>

\* the class [a-z0-9]
AlnumLower == {"a","b","c","d","e","f","g","h","i","j","k","l","m",
               "n","o","p","q","r","s","t","u","v","w","x","y","z",
               "0","1","2","3","4","5","6","7","8","9"}

\* the lower-case form of each upper-case letter
LowerFn ==
    [c \in {UpperChars[i] : i \in 1..Len(UpperChars)} |->
        LowerChars[CHOOSE i \in 1..Len(UpperChars) : UpperChars[i] = c]]

LowerOf(c) == IF c \in DOMAIN LowerFn THEN LowerFn[c] ELSE c

\* str.lower()
lower(s) == [i \in 1..Len(s) |-> LowerOf(s[i])]

RECURSIVE lstrip(_, _)
lstrip(s, cs) ==
    IF s # <<>> /\ Head(s) \in cs THEN lstrip(Tail(s), cs) ELSE s

RECURSIVE rstrip(_, _)
rstrip(s, cs) ==
    IF s # <<>> /\ s[Len(s)] \in cs
    THEN rstrip(SubSeq(s, 1, Len(s) - 1), cs) ELSE s

\* str.strip(chars)
strip_chars(s, cs) == rstrip(lstrip(s, cs), cs)

\* str.strip()
strip(s) == strip_chars(s, Whitespace)

\* sub in s
Contains(s, sub) ==
    \E i \in 1..(Len(s) - Len(sub) + 1) : SubSeq(s, i, i + Len(sub) - 1) = sub

RECURSIVE SkipNonAlnum(_)
SkipNonAlnum(s) ==
    IF s # <<>> /\ Head(s) \notin AlnumLower THEN SkipNonAlnum(Tail(s)) ELSE s

\* re.sub(r"[^a-z0-9]+", "_", s)
RECURSIVE SubNonAlnum(_)
SubNonAlnum(s) ==
    IF s = <<>> THEN <<>>
    ELSE IF Head(s) \in AlnumLower THEN <<Head(s)>> \o SubNonAlnum(Tail(s))
    ELSE <<"_">> \o SubNonAlnum(SkipNonAlnum(s))

SetMin(S) == CHOOSE x \in S : \A y \in S : x <= y

\* re.sub(r"<[^>]+>", "", s)
RECURSIVE StripTags(_)
StripTags(s) ==
    IF s = <<>> THEN <<>>
    ELSE LET gts == {j \in 2..Len(s) : s[j] = ">"}
         IN  IF Head(s) = "<" /\ gts # {} /\ SetMin(gts) >= 3
             THEN StripTags(SubSeq(s, SetMin(gts) + 1, Len(s)))
             ELSE <<Head(s)>> \o StripTags(Tail(s))

StyleEq == <<"s","t","y","l","e","=">>

\* _norm with the underscores stripped before the runs are replaced
_norm_StripFirst(s) == SubNonAlnum(strip_chars(lower(strip(s)), {"_"}))

\* _norm of update_experiment_results
_norm(s) == strip_chars(SubNonAlnum(lower(strip(s))), {"_"})

\* the key derivation of the two readers
DeriveKey(param) == strip_chars(SubNonAlnum(lower(strip(param))), {"_"})

\* _clean_text of the two readers
_clean_text(node_text) ==
    IF node_text = <<>> THEN <<>>
    ELSE LET cleaned == strip(StripTags(node_text))
         IN  IF \/ Contains(cleaned, <<"<">>)
                \/ Contains(cleaned, <<">">>)
                \/ Contains(lower(node_text), StyleEq)
             THEN <<>>
             ELSE cleaned

----------------------------------------------------------------------------
(* BeautifulSoup                                                            *)

RECURSIVE JoinWith(_, _)
JoinWith(parts, sep) ==
    IF parts = <<>> THEN <<>>
    ELSE IF Len(parts) = 1 THEN parts[1]
    ELSE parts[1] \o sep \o JoinWith(Tail(parts), sep)

\* Tag.get_text(separator=' ', strip=True): the stripped, non-empty strings
\* of the cell joined by one space; tags and their attributes are not text
get_text(cell) ==
    LET stripped == [i \in 1..Len(cell.kids) |-> strip(cell.kids[i].txt)]
    IN  JoinWith(SelectSeq(stripped, LAMBDA t : t # <<>>), <<" ">>)

\* tr.find_all("td"): positions of the <td> cells of a row
TdIndexes(row) ==
    LET F[i \in 0..Len(row)] ==
            IF i = 0 THEN <<>>
            ELSE IF row[i].tag = "td" THEN Append(F[i-1], i) ELSE F[i-1]
    IN  F[Len(row)]

IsTable(node) == node.kind = "table"

\* soup.find("table"): position of the first <table> element, 0 if none
FirstTable(body) ==
    IF \E i \in 1..Len(body) : IsTable(body[i])
    THEN SetMin({i \in 1..Len(body) : IsTable(body[i])})
    ELSE 0

\* str(soup) read back by html.parser: in every cell, empty strings vanish
\* and adjacent strings are one string
RECURSIVE MergeKids(_)
MergeKids(kids) ==
    IF kids = <<>> THEN <<>>
    ELSE IF kids[1].tag = "#text" /\ kids[1].txt = <<>> THEN MergeKids(Tail(kids))
    ELSE IF Len(kids) >= 2 /\ kids[1].tag = "#text" /\ kids[2].tag = "#text"
    THEN MergeKids(<<[kids[1] EXCEPT !.txt = kids[1].txt \o kids[2].txt]>>
                   \o SubSeq(kids, 3, Len(kids)))
    ELSE <<kids[1]>> \o MergeKids(Tail(kids))

ReparseRow(row) ==
    [c \in 1..Len(row) |-> [row[c] EXCEPT !.kids = MergeKids(row[c].kids)]]

ReparseNode(node) ==
    IF IsTable(node)
    THEN [node EXCEPT !.rows = [r \in 1..Len(node.rows) |-> ReparseRow(node.rows[r])]]
    ELSE node

Reparse(body) == [i \in 1..Len(body) |-> ReparseNode(body[i])]

\* The body as the string eLabFTW stores: one entry per character, a tag or a
\* character reference being one entry
EscapeChar(c) ==
    IF c = "<" THEN "&lt;" ELSE IF c = ">" THEN "&gt;"
    ELSE IF c = "&" THEN "&amp;" ELSE c

Escape(s) == [i \in 1..Len(s) |-> EscapeChar(s[i])]

RECURSIVE Flatten(_)
Flatten(parts) ==
    IF parts = <<>> THEN <<>> ELSE parts[1] \o Flatten(Tail(parts))

RawKid(kid) ==
    IF kid.tag = "#text" THEN Escape(kid.txt)
    ELSE <<IF kid.style THEN "<span style=\"color:red\">" ELSE "<span>">>
         \o Escape(kid.txt) \o <<"</span>">>

RawCell(cell) ==
    <<IF cell.tag = "td" THEN "<td>" ELSE "<th>">>
    \o Flatten([k \in 1..Len(cell.kids) |-> RawKid(cell.kids[k])])
    \o <<IF cell.tag = "td" THEN "</td>" ELSE "</th>">>

RawRow(row) ==
    <<"<tr>">> \o Flatten([c \in 1..Len(row) |-> RawCell(row[c])]) \o <<"</tr>">>

RawNode(node) ==
    IF node.kind \in {"text", "marked"} THEN node.txt
    ELSE IF node.kind = "table"
    THEN <<"<table>">>
         \o Flatten([r \in 1..Len(node.rows) |-> RawRow(node.rows[r])])
         \o <<"</table>">>
    ELSE <<IF node.name = "tablet" THEN "<tablet>" ELSE "<p>">>
         \o Escape(node.txt)
         \o <<IF node.name = "tablet" THEN "</tablet>" ELSE "</p>">>

Raw(body) == Flatten([i \in 1..Len(body) |-> RawNode(body[i])])

\* "<table" in body.lower(): the tag of a <table> or of an element whose name
\* starts with "table", or those characters in character data (in a cell or
\* an element "<" is written "&lt;")
HasTableSubstring(body) ==
    \E i \in 1..Len(body) :
        \/ body[i].kind = "table"
        \/ body[i].kind = "elem" /\ body[i].name = "tablet"
        \/ body[i].kind = "text"
            /\ Contains(lower(body[i].txt), <<"<","t","a","b","l","e">>)

\* the body holds markup on which html.parser raises AssertionError in the
\* builds that know no such marked section (BeautifulSoup then raises
\* ParserRejectedMarkup)
Rejects(body) == \E i \in 1..Len(body) : body[i].kind = "marked"

\* BeautifulSoup(body, "html.parser") is called, inside the handler's try,
\* and raises; raises says whether the build's html.parser does
ParserRaises(body, raises) ==
    raises /\ body # <<>> /\ HasTableSubstring(body) /\ Rejects(body)

----------------------------------------------------------------------------
(* The two readers                                                          *)

EmptyStr == <<>>

\* Denylist without its first string
Denylist_NoParametro ==
    { <<"r","e","s","u","l","t","a","d","o">>,
      <<"h","e","m","o","g","r","a","m","a">>,
      <<"s","é","r","i","e"," ","b","r","a","n","c","a">> }

\* ("parâmetro", "resultado", "hemograma", "série branca")
Denylist ==
    { <<"p","a","r","â","m","e","t","r","o">>,
      <<"r","e","s","u","l","t","a","d","o">>,
      <<"h","e","m","o","g","r","a","m","a">>,
      <<"s","é","r","i","e"," ","b","r","a","n","c","a">> }

\* text of the n-th <td> of a row, "" when the row has fewer
TdText(row, tds, n) ==
    IF Len(tds) >= n THEN _clean_text(get_text(row[tds[n]])) ELSE EmptyStr

Field(key, label, unit, reference, observation, value) ==
    [key |-> key, label |-> label, unit |-> unit, reference |-> reference,
     observation |-> observation, value |-> value]

\* RowFields with every cell of the row counted, <th> as well as <td>
RowFields_AnyCell(row, minTds, needKey) ==
    LET tds == [i \in 1..Len(row) |-> i]
    IN  IF Len(tds) < minTds THEN <<>>
        ELSE LET param     == TdText(row, tds, 1)
                 low_param == lower(strip(param))
                 key       == DeriveKey(param)
             IN  IF param = EmptyStr \/ low_param \in Denylist THEN <<>>
                 ELSE IF needKey /\ key = EmptyStr THEN <<>>
                 ELSE << Field(key, param, TdText(row, tds, 3), TdText(row, tds, 4),
                               TdText(row, tds, 5), TdText(row, tds, 2)) >>

\* one <tr> in either reader's loop: the fields it appends (none or one);
\* minTds is the number of <td> below which the row is skipped and
\* needKey says whether an empty key drops the row
RowFields(row, minTds, needKey) ==
    LET tds == TdIndexes(row)
    IN  IF Len(tds) < minTds THEN <<>>
        ELSE LET param     == TdText(row, tds, 1)
                 low_param == lower(strip(param))
                 key       == DeriveKey(param)
             IN  IF param = EmptyStr \/ low_param \in Denylist THEN <<>>
                 ELSE IF needKey /\ key = EmptyStr THEN <<>>
                 ELSE << Field(key, param, TdText(row, tds, 3), TdText(row, tds, 4),
                               TdText(row, tds, 5), TdText(row, tds, 2)) >>

\* TableFields with the rows of every table of the body
TableFields_AllTables(body, minTds, needKey) ==
    Flatten([i \in 1..Len(body) |->
        IF IsTable(body[i])
        THEN Flatten([r \in 1..Len(body[i].rows) |->
                         RowFields(body[i].rows[r], minTds, needKey)])
        ELSE <<>>])

TableFields(body, minTds, needKey) ==
    IF HasTableSubstring(body) /\ FirstTable(body) # 0
    THEN LET rows == body[FirstTable(body)].rows
         IN  Flatten([r \in 1..Len(rows) |-> RowFields(rows[r], minTds, needKey)])
    ELSE <<>>

\* get_template_for_tipo: rows of fewer than 3 <td> are skipped, a row whose
\* key is empty is not appended
TemplateMinTds == 3

TemplateTableFields(body) == TableFields(body, TemplateMinTds, TRUE)

\* get_experiment_body: rows of fewer than 2 <td> are skipped, every other
\* row with a label is appended
BodyMinTds == 2

BodyTableFields(body) == TableFields(body, BodyMinTds, FALSE)

\* re.findall(r"\{\{\s*([^\}]+?)\s*\}\}", body): the captured groups, left to
\* right.  A match starts at "{{", runs over at least one character other
\* than "}" and ends at the first "}", which another "}" must follow; the
\* group is that run without the white space around it (its last character
\* when it is all white space).
RECURSIVE Placeholders(_)
Placeholders(raw) ==
    IF Len(raw) < 2 THEN <<>>
    ELSE LET closes == {j \in 3..Len(raw) : raw[j] = "}"}
             j      == SetMin(closes)
             run    == SubSeq(raw, 3, j - 1)
         IN  IF /\ raw[1] = "{" /\ raw[2] = "{"
                /\ closes # {} /\ j >= 4
                /\ j + 1 <= Len(raw) /\ raw[j + 1] = "}"
             THEN << IF strip(run) = EmptyStr THEN <<run[Len(run)]>> ELSE strip(run) >>
                  \o Placeholders(SubSeq(raw, j + 2, Len(raw)))
             ELSE Placeholders(Tail(raw))

PlaceholderField(ph) ==
    Field(DeriveKey(ph), strip(ph), EmptyStr, EmptyStr, EmptyStr, EmptyStr)

PlaceholderFields(body) ==
    LET phs == Placeholders(Raw(body))
    IN  [i \in 1..Len(phs) |-> PlaceholderField(phs[i])]

\* TemplateFields with the tokens read only when the body has no "<table"
TemplateFields_NoTableOnly(body) ==
    IF HasTableSubstring(body) THEN TemplateTableFields(body)
    ELSE PlaceholderFields(body)

\* fields of GET /templates
TemplateFields(body) ==
    IF TemplateTableFields(body) # <<>> THEN TemplateTableFields(body)
    ELSE PlaceholderFields(body)

\* fields of GET /experimentos/{id}/body
ExperimentFields(body) == BodyTableFields(body)

\* the two field lists with the except branch of the try around the table
\* parse: the exception leaves fields empty, and the template read goes on
\* to the placeholders
TemplateReadFields(body, raises) ==
    IF ParserRaises(body, raises) THEN PlaceholderFields(body)
    ELSE TemplateFields(body)

BodyReadFields(body, raises) ==
    IF ParserRaises(body, raises) THEN <<>> ELSE ExperimentFields(body)

----------------------------------------------------------------------------
(* The result writer                                                        *)

\* A JSON value of the "results" object: a string, or null (Python None).
\* The object itself is the sequence of its entries [k |-> key, v |-> value]
\* in iteration order, the keys distinct.
StrVal(s) == [t |-> "str", s |-> s]

None == [t |-> "none", s |-> <<>>]

\* str(value)
str(v) == IF v = None THEN <<"N","o","n","e">> ELSE v.s

\* positions of the entries whose key, mapped by F, is key
Matching(results, F(_), key) == {i \in 1..Len(results) : F(results[i].k) = key}

SetMax(S) == CHOOSE x \in S : \A y \in S : x >= y

\* { F(k): v for k, v in results.items() }[key]: of the entries whose keys
\* collide, the last one wins
DictGet(results, F(_), key) == results[SetMax(Matching(results, F, key))].v

\* FirstCaseInsensitive with the comparison left out of the loop
FirstCaseInsensitive_NoTest(results, raw_param) ==
    IF results = <<>> THEN None ELSE results[1].v

\* the for/break loop over results.items(): the first entry whose key matches
\* the row's text without regard to case
FirstCaseInsensitive(results, raw_param) ==
    LET F(k) == lower(strip(k))
        hits == Matching(results, F, lower(strip(raw_param)))
    IN  IF hits = {} THEN None ELSE results[SetMin(hits)].v

\* NewValue with the exact channel alone
NewValue_ExactOnly(results, raw_param) ==
    IF Matching(results, strip, raw_param) # {}
    THEN DictGet(results, strip, raw_param)
    ELSE None

\* NewValue with the case-insensitive loop tried before the normalized keys
NewValue_CaseBeforeNorm(results, raw_param) ==
    IF Matching(results, strip, raw_param) # {}
    THEN DictGet(results, strip, raw_param)
    ELSE IF FirstCaseInsensitive(results, raw_param) # None
    THEN FirstCaseInsensitive(results, raw_param)
    ELSE IF Matching(results, _norm, _norm(raw_param)) # {}
    THEN DictGet(results, _norm, _norm(raw_param))
    ELSE None

\* the value chosen for a row whose column 0 reads raw_param; None when no
\* entry matches
NewValue(results, raw_param) ==
    IF Matching(results, strip, raw_param) # {}
    THEN DictGet(results, strip, raw_param)
    ELSE IF Matching(results, _norm, _norm(raw_param)) # {}
    THEN DictGet(results, _norm, _norm(raw_param))
    ELSE FirstCaseInsensitive(results, raw_param)

TextKid(s) == [tag |-> "#text", style |-> FALSE, txt |-> s]

\* UpdateRow with the value written into column 0 instead of column 1
UpdateRow_FirstCell(row, results) ==
    LET tds == TdIndexes(row)
    IN  IF Len(tds) < 2 THEN row
        ELSE LET new_value == NewValue(results, get_text(row[tds[1]]))
             IN  IF new_value # None
                 THEN [row EXCEPT ![tds[1]].kids = <<TextKid(str(new_value))>>]
                 ELSE row

\* one <tr> of the writer's loop
UpdateRow(row, results) ==
    LET tds == TdIndexes(row)
    IN  IF Len(tds) < 2 THEN row
        ELSE LET new_value == NewValue(results, get_text(row[tds[1]]))
             IN  IF new_value # None
                 THEN [row EXCEPT ![tds[2]].kids = <<TextKid(str(new_value))>>]
                 ELSE row

\* UpdateTable with the loop run over every table of the body
UpdateTable_AllTables(body, results) ==
    [i \in 1..Len(body) |->
        IF IsTable(body[i])
        THEN [body[i] EXCEPT !.rows =
                [r \in 1..Len(body[i].rows) |-> UpdateRow(body[i].rows[r], results)]]
        ELSE body[i]]

\* the soup after the loop over table.find_all("tr") of the first table
UpdateTable(body, results) ==
    LET t == FirstTable(body)
    IN  [body EXCEPT ![t].rows =
            [r \in 1..Len(body[t].rows) |-> UpdateRow(body[t].rows[r], results)]]

\* FlatText with the lines in reverse order
FlatText_Reversed(results) ==
    JoinWith([i \in 1..Len(results) |->
                 results[Len(results) + 1 - i].k \o <<":", " ">>
                 \o str(results[Len(results) + 1 - i].v)],
             <<"\n">>)

\* the fallback body: "\n".join(f"{k}: {v}")
FlatText(results) ==
    JoinWith([i \in 1..Len(results) |-> results[i].k \o <<":", " ">> \o str(results[i].v)],
             <<"\n">>)

FlatBody(results) == << [kind |-> "text", txt |-> FlatText(results)] >>

\* updated_body, as html.parser reads it back from eLabFTW
UpdatedBody(body, results) ==
    IF body # <<>> /\ HasTableSubstring(body) /\ FirstTable(body) # 0
    THEN Reparse(UpdateTable(body, results))
    ELSE FlatBody(results)

\* the body PATCHed: the except branch of the try around the table update
\* leaves updated_body None, and the flat text is written
WrittenBody(body, results, raises) ==
    IF ParserRaises(body, raises) THEN FlatBody(results)
    ELSE UpdatedBody(body, results)

----------------------------------------------------------------------------
(* Bodies, templates and payloads the requests are drawn from               *)

S_Glicose == <<"G","l","i","c","o","s","e">>

S_GlicoseLower == <<"g","l","i","c","o","s","e">>

S_GlicosePadded == <<" ","G","l","i","c","o","s","e"," ">>

S_GlicoseLoud == <<"G","L","I","C","O","S","E"," ","?">>

S_UreiaPadded == <<" "," ","u","r","e","i","a"," "," ">>

S_Ureia == <<"U","r","e","i","a">>

S_Parametro == <<"P","a","r","â","m","e","t","r","o">>

S_Resultado == <<"R","e","s","u","l","t","a","d","o">>

S_Unidade == <<"U","n","i","d","a","d","e">>

S_SerieBranca == <<"S","é","r","i","e"," ","B","r","a","n","c","a">>

S_LetterX == <<"x">>

S_Percent == <<"%">>

S_TagLike == <<"a","<","b",">","c">>

S_TagLikeClean == <<"a","c">>

S_Hb == <<"H","b">>

S_Zinco == <<"Z","i","n","c","o">>

S_Ferro == <<"F","e","r","r","o">>

S_V95 == <<"9","5">>

S_V12 == <<"1","2">>

S_VPadded == <<" ","7"," ">>

S_VMarkup == <<"<","b",">">>

S_Mg == <<"m","g">>

S_GdL == <<"g","/","d","L">>

S_Ref == <<"1","2","-","1","6">>

S_Ok == <<"o","k">>

S_V9 == <<"9">>

S_Hash == <<"#">>

S_NoTableHere == <<"n","o"," ","t","a","b","l","e"," ","h","e","r","e"," ","{","{","a","g","e","n","d","a","m","e","n","t","o","_","i","d","}","}"," ","{","{","t","i","p","o","_","a","m","o","s","t","r","a","}","}">>

S_Tokens == <<"{","{","a","}","}"," ","{","{","a","}","}"," ","{","{"," ","%"," ","}","}"," ","{","{","b","}">>

S_Laudo == <<"L","a","u","d","o">>

Td(kids) == [tag |-> "td", kids |-> kids]

Th(kids) == [tag |-> "th", kids |-> kids]

Txt(s) == <<TextKid(s)>>

Span(s, style) == <<[tag |-> "span", style |-> style, txt |-> s]>>

Table(rows) == [kind |-> "table", rows |-> rows]

Text(s) == [kind |-> "text", txt |-> s]

Elem(name, s) == [kind |-> "elem", name |-> name, txt |-> s]

\* <![x]>
Marked == [kind |-> "marked", txt |-> <<"<![x]>">>]

\* <tr><td>Glicose</td><td></td></tr>
RowGlicose == << Td(Txt(S_Glicose)), Td(<<>>) >>

\* <tr><td>  ureia  </td><td>12</td><td>mg</td></tr>
RowUreia == << Td(Txt(S_UreiaPadded)), Td(Txt(S_V12)), Td(Txt(S_Mg)) >>

\* a header row rendered with <td>
RowParametroTd == << Td(Txt(S_Parametro)), Td(Txt(S_Resultado)), Td(Txt(S_Unidade)) >>

\* a header row rendered with <th>
RowHeaderTh == << Th(Txt(S_Parametro)), Th(Txt(S_Resultado)) >>

\* <tr><td><span style="color:red">x</span></td><td>12</td><td>mg</td></tr>
RowStyled == << Td(Span(S_LetterX, TRUE)), Td(Txt(S_V12)), Td(Txt(S_Mg)) >>

\* <tr><td>%</td><td>12</td><td>mg</td></tr>
RowPercent == << Td(Txt(S_Percent)), Td(Txt(S_V12)), Td(Txt(S_Mg)) >>

RowPool == {RowGlicose, RowUreia, RowParametroTd, RowPercent}

\* rows of a table of the pool
MaxRows == 2

RECURSIVE RowSeqs(_)
RowSeqs(n) ==
    IF n = 0 THEN {<<>>}
    ELSE RowSeqs(n - 1) \cup
         {Append(rs, r) : rs \in {x \in RowSeqs(n - 1) : Len(x) = n - 1}, r \in RowPool}

\* five columns
RowHb == << Td(Txt(S_Hb)), Td(<<>>), Td(Txt(S_GdL)), Td(Txt(S_Ref)), Td(Txt(S_Ok)) >>

\* column 0 reads a<b>c (written a&lt;b&gt;c)
RowTagLike == << Td(Txt(S_TagLike)), Td(Txt(S_V12)) >>

\* a <th> before the two <td>, markup in the value cell
RowThFirst == << Th(Txt(S_Hash)), Td(Txt(S_Glicose)), Td(Span(S_V9, FALSE) \o Txt(S_Mg)) >>

\* <tr><td colspan="5">Série Branca</td></tr>
RowSection == << Td(Txt(S_SerieBranca)) >>

\* <tr><td colspan="5">Zinco</td></tr>
RowSingle == << Td(Txt(S_Zinco)) >>

\* a row of <th> cells whose first reads as a label
RowThOnly == << Th(Txt(S_Ferro)), Th(Txt(S_V12)), Th(Txt(S_Mg)) >>

BodyHb == << Table(<<RowHb, RowParametroTd, RowStyled>>) >>

BodyTagLike == << Table(<<RowTagLike>>) >>

BodyThFirst == << Table(<<RowThFirst>>) >>

BodySection == << Table(<<RowHeaderTh, RowSection, RowGlicose, RowStyled>>) >>

\* rows of fewer than two <td> before a row of three
BodyNarrowRows == << Table(<<RowSingle, RowThOnly, RowUreia>>) >>

BodyTwoTables ==
    << Elem("p", S_Laudo), Table(<<RowGlicose>>), Table(<<RowGlicose, RowUreia>>) >>

\* two tables of rows of three <td> and more, an element between them
BodyTwoTablesWide ==
    << Table(<<RowUreia, RowHb>>), Elem("p", S_Laudo), Table(<<RowStyled, RowPercent>>) >>

\* a table, a token and a marked section after them
BodyMarked == << Table(<<RowGlicose, RowUreia>>), Text(S_Tokens), Marked >>

\* a marked section and no table
BodyMarkedNoTable == << Elem("p", S_Laudo), Marked >>

\* <p>no table here {{agendamento_id}} {{tipo_amostra}}</p>
BodyPlaceholders == << Elem("p", S_NoTableHere) >>

BodyEmpty == <<>>

\* an element whose name starts with "table" and no <table>
BodyTablet == << Elem("tablet", S_Laudo), Text(S_Tokens) >>

\* a table that yields no field, and tokens after it
BodyHeaderAndTokens == << Table(<<RowHeaderTh>>), Text(S_Tokens) >>

SpecialBodies ==
    {BodyHb, BodyTagLike, BodyThFirst, BodySection, BodyTwoTables,
     BodyPlaceholders, BodyEmpty, BodyTablet, BodyHeaderAndTokens,
     BodyNarrowRows, BodyTwoTablesWide, BodyMarked, BodyMarkedNoTable}

BodyPool == {<<Table(rs)>> : rs \in RowSeqs(MaxRows)} \cup SpecialBodies

TemplatePool ==
    { << Table(<<RowGlicose, RowUreia, RowPercent>>) >>,
      BodyHb, BodyPlaceholders, BodyHeaderAndTokens, BodyNarrowRows,
      BodyTwoTablesWide, BodyMarked }

Entry(k, v) == [k |-> k, v |-> v]

Dict(items) == [t |-> "dict", items |-> items]

\* "results" objects with one entry
SinglePatches ==
    { Dict(<<Entry(S_Glicose, StrVal(S_V95))>>),
      Dict(<<Entry(S_Glicose, StrVal(S_VPadded))>>),
      Dict(<<Entry(S_Glicose, StrVal(S_VMarkup))>>),
      Dict(<<Entry(S_Glicose, StrVal(EmptyStr))>>),
      Dict(<<Entry(S_Glicose, None)>>),
      Dict(<<Entry(S_GlicoseLower, StrVal(S_V95))>>),
      Dict(<<Entry(S_GlicosePadded, StrVal(S_V95))>>),
      Dict(<<Entry(S_GlicoseLoud, StrVal(S_V95))>>),
      Dict(<<Entry(S_Ureia, StrVal(S_V95))>>),
      Dict(<<Entry(S_LetterX, StrVal(S_V95))>>),
      Dict(<<Entry(S_Percent, StrVal(S_V95))>>),
      Dict(<<Entry(S_TagLikeClean, StrVal(S_V95))>>),
      Dict(<<Entry(S_Hb, StrVal(S_V95))>>),
      Dict(<<Entry(S_Zinco, StrVal(S_V95))>>) }

\* "results" objects with two entries
PairPatches ==
    { Dict(<<Entry(S_GlicoseLower, StrVal(S_V95)), Entry(S_GlicoseLoud, StrVal(S_V12))>>),
      Dict(<<Entry(S_GlicoseLoud, StrVal(S_V12)), Entry(S_GlicoseLower, StrVal(S_V95))>>),
      Dict(<<Entry(S_Glicose, StrVal(S_V95)), Entry(S_GlicosePadded, StrVal(S_V12))>>),
      Dict(<<Entry(S_GlicoseLoud, StrVal(S_V12)), Entry(S_Glicose, StrVal(S_V95))>>),
      Dict(<<Entry(S_Glicose, None), Entry(S_GlicoseLower, StrVal(S_V95))>>),
      Dict(<<Entry(S_Glicose, StrVal(S_V95)), Entry(S_Ureia, StrVal(S_V12))>>),
      Dict(<<Entry(S_Zinco, StrVal(S_V95)), Entry(S_Ferro, StrVal(S_V12))>>) }

\* what payload.get("results") can be: absent, not an object, an object
ResultsPool ==
    { [t |-> "absent", items |-> <<>>], [t |-> "list", items |-> <<>>], Dict(<<>>) }
    \cup SinglePatches \cup PairPatches

----------------------------------------------------------------------------
(* The handlers                                                             *)

\* researcher-id headers the requests carry; 4 is no row of Researcher
ResearcherIds == 1..4

S_Maq == <<"m","a","q">>

S_Ana == <<"a","n","a">>

S_Bia == <<"b","i","a">>

S_Pesquisador == <<"P","e","s","q","u","i","s","a","d","o","r">>

\* a row of Researcher; elab_item_id 0 is NULL (the code tests the column by
\* its truth value)
Researcher(name, password, role, elab_item_id) ==
    [name |-> name, password |-> password, role |-> role,
     elab_item_id |-> elab_item_id]

\* a row of Experiment
Experiment(id, elab_experiment_id, researcher_id) ==
    [id |-> id, elab_experiment_id |-> elab_experiment_id,
     researcher_id |-> researcher_id]

InitResearchers ==
    (1 :> Researcher(S_Maq, "pw1", "maquina", 1))
    @@ (2 :> Researcher(S_Ana, "pw2", "pesquisador", 2))
    @@ (3 :> Researcher(S_Bia, "pw3", "admin", 3))

InitExperiments == {}

\* eLabFTW with the item type and the items of the three researchers
InitElab ==
    [items_types |-> << [id |-> 1, title |-> S_Pesquisador] >>,
     items |-> << [id |-> 1, title |-> S_Maq, items_type_id |-> 1],
                  [id |-> 2, title |-> S_Ana, items_type_id |-> 1],
                  [id |-> 3, title |-> S_Bia, items_type_id |-> 1] >>,
     experiments |-> <<>>]

PatchGlicose == Dict(<<Entry(S_Glicose, StrVal(S_V95))>>)

PatchZinco == Dict(<<Entry(S_Zinco, StrVal(S_V95))>>)

PatchTwo == Dict(<<Entry(S_Glicose, StrVal(S_V95)), Entry(S_Ureia, StrVal(S_V12))>>)

\* requests to PATCH /experimentos/{id}/update-results: who asks, the
\* "results" of the payload, whether eLabFTW answers the GET and the PATCH
\* with success, and whether html.parser raises on a marked section
UpdateRequests ==
    [rid : {1}, results : ResultsPool, getOk : {TRUE}, patchOk : {TRUE},
     raises : {FALSE}]
    \cup [rid : {2, 3, 4}, results : {PatchGlicose, Dict(<<>>)},
          getOk : {TRUE}, patchOk : {TRUE}, raises : {FALSE}]
    \cup [rid : {1}, results : {PatchGlicose}, getOk : {FALSE}, patchOk : {TRUE},
          raises : {FALSE}]
    \cup [rid : {1}, results : {PatchGlicose}, getOk : {TRUE}, patchOk : {FALSE},
          raises : {FALSE}]
    \cup [rid : {1}, results : {PatchGlicose, PatchTwo, PatchZinco}, getOk : {TRUE},
          patchOk : {TRUE}, raises : {TRUE}]

\* requests to GET /experimentos/{id}/body: who asks, whether eLabFTW
\* answers the GET with success, and whether html.parser raises
BodyRequests ==
    [rid : ResearcherIds, getOk : {TRUE}, raises : {FALSE}]
    \cup [rid : {1}, getOk : {FALSE}, raises : {FALSE}]
    \cup [rid : {1}, getOk : {TRUE}, raises : {TRUE}]

\* no evaluation of the key derivation asked for
NormIdle == [label |-> <<>>, copy |-> "none", evals |-> <<>>, re |-> <<>>]

\* clients whose calls may overlap
MaxClients == 2

Clients == 1..MaxClients

\* a client with no call in progress
Idle ==
    [pc |-> "idle", op |-> "none", rid |-> 0, results |-> Dict(<<>>),
     raises |-> FALSE, input |-> <<>>, body |-> <<>>, status |-> 0, out |-> <<>>]

Init ==
    /\ researchers = InitResearchers
    /\ experiments = InitExperiments
    /\ elab = InitElab
    /\ inflight = [c \in Clients |-> Idle]
    /\ norm = NormIdle
    /\ \/ expBody \in BodyPool /\ tplBody = BodyHb
       \/ expBody = BodyTwoTables /\ tplBody \in TemplatePool
    /\ req = [op |-> "none", rid |-> 0, results |-> Dict(<<>>), body |-> <<>>,
              elabOk |-> TRUE, raised |-> FALSE]
    /\ resp = [status |-> 0, fields |-> <<>>, calls |-> <<>>]

\* UpdateStatus with the parser's exception reported to the caller
UpdateStatus_ParseError(rs, r) ==
    IF r.rid \notin DOMAIN rs THEN 401
    ELSE IF rs[r.rid].role # "maquina" THEN 403
    ELSE IF r.results.t # "dict" \/ r.results.items = <<>> THEN 400
    ELSE IF ~r.getOk \/ ~r.patchOk THEN 400
    ELSE IF ParserRaises(expBody, r.raises) THEN 400
    ELSE 200

\* UpdateStatus without the test of the payload
UpdateStatus_NoValidation(rs, r) ==
    IF r.rid \notin DOMAIN rs THEN 401
    ELSE IF rs[r.rid].role # "maquina" THEN 403
    ELSE IF ~r.getOk \/ ~r.patchOk THEN 400
    ELSE 200

\* the status update_experiment_results answers with
UpdateStatus(rs, r) ==
    IF r.rid \notin DOMAIN rs THEN 401
    ELSE IF rs[r.rid].role # "maquina" THEN 403
    ELSE IF r.results.t # "dict" \/ r.results.items = <<>> THEN 400
    ELSE IF ~r.getOk \/ ~r.patchOk THEN 400
    ELSE 200

\* UpdateCalls with the experiment read before the role is tested
UpdateCalls_GetFirst(rs, r) ==
    IF r.rid \notin DOMAIN rs THEN <<>>
    ELSE IF rs[r.rid].role # "maquina" THEN <<"GET">>
    ELSE IF r.results.t # "dict" \/ r.results.items = <<>> THEN <<"GET">>
    ELSE IF ~r.getOk THEN <<"GET">>
    ELSE <<"GET", "PATCH">>

\* the calls it makes to eLabFTW
UpdateCalls(rs, r) ==
    IF r.rid \notin DOMAIN rs \/ rs[r.rid].role # "maquina" THEN <<>>
    ELSE IF r.results.t # "dict" \/ r.results.items = <<>> THEN <<>>
    ELSE IF ~r.getOk THEN <<"GET">>
    ELSE <<"GET", "PATCH">>

update_experiment_results(r) ==
    /\ req' = [op |-> "update-results", rid |-> r.rid, results |-> r.results,
               body |-> expBody, elabOk |-> r.getOk /\ r.patchOk,
               raised |-> UpdateStatus(researchers, r) = 200
                          /\ ParserRaises(expBody, r.raises)]
    /\ resp' = [status |-> UpdateStatus(researchers, r), fields |-> <<>>,
                calls |-> UpdateCalls(researchers, r)]
    /\ expBody' = IF UpdateStatus(researchers, r) = 200
                  THEN WrittenBody(expBody, r.results.items, r.raises)
                  ELSE expBody
    /\ UNCHANGED <<researchers, experiments, elab, tplBody, inflight, norm>>

\* the status get_experiment_body answers with
BodyStatus(rs, rid, getOk) ==
    IF rid \notin DOMAIN rs THEN 401
    ELSE IF rs[rid].role \notin {"maquina", "admin"} THEN 403
    ELSE IF ~getOk THEN 400
    ELSE 200

get_experiment_body(rid, getOk, raises) ==
    /\ req' = [op |-> "body", rid |-> rid, results |-> Dict(<<>>), body |-> expBody,
               elabOk |-> getOk,
               raised |-> BodyStatus(researchers, rid, getOk) = 200
                          /\ ParserRaises(expBody, raises)]
    /\ resp' = [status |-> BodyStatus(researchers, rid, getOk),
                fields |-> IF BodyStatus(researchers, rid, getOk) = 200
                           THEN BodyReadFields(expBody, raises) ELSE <<>>,
                calls |-> IF BodyStatus(researchers, rid, getOk) \in {200, 400}
                          THEN <<"GET">> ELSE <<>>]
    /\ UNCHANGED <<researchers, experiments, elab, expBody, tplBody, inflight, norm>>

\* found says whether get_template_object_by_title returns a template
get_template_for_tipo(found, raises) ==
    /\ req' = [op |-> "templates", rid |-> 0, results |-> Dict(<<>>), body |-> tplBody,
               elabOk |-> found, raised |-> found /\ ParserRaises(tplBody, raises)]
    /\ resp' = [status |-> IF found THEN 200 ELSE 400,
                fields |-> IF found THEN TemplateReadFields(tplBody, raises) ELSE <<>>,
                calls |-> <<"GET">>]
    /\ UNCHANGED <<researchers, experiments, elab, expBody, tplBody, inflight, norm>>

Next ==
    \/ \E r \in UpdateRequests : update_experiment_results(r)
    \/ \E r \in BodyRequests : get_experiment_body(r.rid, r.getOk, r.raises)
    \/ \E found, raises \in BOOLEAN : get_template_for_tipo(found, raises)

Spec == Init /\ [][Next]_vars

----------------------------------------------------------------------------
(* The key derivation alone, over every label of a bounded length           *)

\* characters of the labels: a lower-case letter, an upper-case letter, a
\* digit, white space, the underscore, a letter outside ASCII and a sign
NormChars == {"a", "B", "1", " ", "_", "É", "%"}

\* length of the longest label
MaxLabelLen == 3

RECURSIVE StringsUpTo(_)
StringsUpTo(n) ==
    IF n = 0 THEN {<<>>}
    ELSE StringsUpTo(n - 1) \cup
         {Append(t, c) : t \in {x \in StringsUpTo(n - 1) : Len(x) = n - 1}, c \in NormChars}

NormLabels == StringsUpTo(MaxLabelLen)

\* the two copies of the derivation: main.py:468-469 and 562-563 in the
\* readers, main.py:321-322 in the writer
normalize_key(copy, label) ==
    IF copy = "parser" THEN DeriveKey(label) ELSE _norm(label)

InitNormalize ==
    /\ researchers = InitResearchers
    /\ experiments = InitExperiments
    /\ elab = InitElab
    /\ expBody = BodyEmpty /\ tplBody = BodyEmpty
    /\ req = [op |-> "none", rid |-> 0, results |-> Dict(<<>>), body |-> <<>>,
              elabOk |-> TRUE, raised |-> FALSE]
    /\ resp = [status |-> 0, fields |-> <<>>, calls |-> <<>>]
    /\ inflight = [c \in Clients |-> Idle]
    /\ \E L \in NormLabels : norm = [NormIdle EXCEPT !.label = L]

\* the first evaluation of a copy on the label
Evaluate(copy) ==
    /\ norm.copy = "none"
    /\ norm' = [norm EXCEPT !.copy = copy,
                            !.evals = <<normalize_key(copy, norm.label)>>]
    /\ UNCHANGED <<researchers, experiments, elab, expBody, tplBody, req, resp, inflight>>

\* one more evaluation of the same copy on the same label
EvaluateAgain ==
    /\ norm.copy # "none" /\ Len(norm.evals) = 1
    /\ norm' = [norm EXCEPT !.evals = Append(@, normalize_key(norm.copy, norm.label))]
    /\ UNCHANGED <<researchers, experiments, elab, expBody, tplBody, req, resp, inflight>>

\* an evaluation of the same copy on the key it gave
Renormalize ==
    /\ norm.copy # "none" /\ norm.re = <<>>
    /\ norm' = [norm EXCEPT !.re = <<normalize_key(norm.copy, norm.evals[1])>>]
    /\ UNCHANGED <<researchers, experiments, elab, expBody, tplBody, req, resp, inflight>>

NextNormalize ==
    \/ \E copy \in {"parser", "writer"} : Evaluate(copy)
    \/ EvaluateAgain
    \/ Renormalize

SpecNormalize == InitNormalize /\ [][NextNormalize]_vars

----------------------------------------------------------------------------
(* The handlers run concurrently (FastAPI runs each def handler in a thread *)
(* of its pool): a call reads the body from eLabFTW in one step and, in a   *)
(* later step, computes its result from its local variables and, for a      *)
(* write, PATCHes it.  Between the two steps the other clients run.         *)

PatchUreia == Dict(<<Entry(S_Ureia, StrVal(S_V9))>>)

\* the calls a client makes
ConcurrentCalls ==
    [op : {"update-results"}, rid : {1}, results : {PatchGlicose, PatchUreia},
     raises : {FALSE}]
    \cup [op : {"update-results"}, rid : {1}, results : {PatchGlicose}, raises : {TRUE}]
    \cup [op : {"update-results"}, rid : {2}, results : {PatchGlicose}, raises : {FALSE}]
    \cup [op : {"body"}, rid : {1}, results : {Dict(<<>>)}, raises : BOOLEAN]
    \cup [op : {"templates"}, rid : {0}, results : {Dict(<<>>)}, raises : {FALSE}]

InitConcurrent ==
    /\ researchers = InitResearchers
    /\ experiments = InitExperiments
    /\ elab = InitElab
    /\ expBody \in {BodyMarked, BodyTwoTables}
    /\ tplBody = BodyHb
    /\ req = [op |-> "none", rid |-> 0, results |-> Dict(<<>>), body |-> <<>>,
              elabOk |-> TRUE, raised |-> FALSE]
    /\ resp = [status |-> 0, fields |-> <<>>, calls |-> <<>>]
    /\ inflight = [c \in Clients |-> Idle]
    /\ norm = NormIdle

\* the status a call answers with when eLabFTW answers its calls
CallStatus(call) ==
    IF call.op = "update-results"
    THEN UpdateStatus(researchers,
                      [rid |-> call.rid, results |-> call.results, getOk |-> TRUE,
                       patchOk |-> TRUE, raises |-> call.raises])
    ELSE IF call.op = "body" THEN BodyStatus(researchers, call.rid, TRUE)
    ELSE 200

\* the handler up to its GET: the requester and the payload are tested and
\* the body is read into the local variable; a rejected call ends here
call_fetch(c, call) ==
    /\ inflight[c].pc = "idle"
    /\ LET fetched == IF call.op = "templates" THEN tplBody ELSE expBody
       IN  inflight' = [inflight EXCEPT ![c] =
              IF CallStatus(call) = 200
              THEN [pc |-> "fetched", op |-> call.op, rid |-> call.rid,
                    results |-> call.results, raises |-> call.raises,
                    input |-> fetched, body |-> fetched, status |-> 0, out |-> <<>>]
              ELSE [pc |-> "done", op |-> call.op, rid |-> call.rid,
                    results |-> call.results, raises |-> call.raises,
                    input |-> <<>>, body |-> <<>>, status |-> CallStatus(call),
                    out |-> <<>>]]
    /\ UNCHANGED <<researchers, experiments, elab, expBody, tplBody, req, resp, norm>>

\* LocalBody read from the store again instead of the local variable
LocalBody_Shared(c) == expBody

\* the local variable body of the call of client c
LocalBody(c) == inflight[c].body

\* what the call of client c computes from its local variables: the body it
\* PATCHes, or the fields it returns
CallResult(c) ==
    IF inflight[c].op = "update-results"
    THEN WrittenBody(LocalBody(c), inflight[c].results.items, inflight[c].raises)
    ELSE IF inflight[c].op = "body"
    THEN BodyReadFields(LocalBody(c), inflight[c].raises)
    ELSE TemplateReadFields(LocalBody(c), inflight[c].raises)

\* the rest of the handler: the result is computed and, for a write, PATCHed
call_finish(c) ==
    /\ inflight[c].pc = "fetched"
    /\ inflight' = [inflight EXCEPT ![c].pc = "done", ![c].status = 200,
                                    ![c].out = CallResult(c)]
    /\ expBody' = IF inflight[c].op = "update-results" THEN CallResult(c) ELSE expBody
    /\ UNCHANGED <<researchers, experiments, elab, tplBody, req, resp, norm>>

NextConcurrent ==
    \/ \E c \in Clients, call \in ConcurrentCalls : call_fetch(c, call)
    \/ \E c \in Clients : call_finish(c)

SpecConcurrent == InitConcurrent /\ [][NextConcurrent]_vars

----------------------------------------------------------------------------
(* Vocabulary of the properties                                             *)

\* the rows of the first <table> of a body
FirstTableRows(body) ==
    IF FirstTable(body) = 0 THEN <<>> ELSE body[FirstTable(body)].rows

\* a row with at least two <td>
DataRow(row) == Len(TdIndexes(row)) >= 2

\* the n-th <td> of a row
Col(row, n) == row[TdIndexes(row)[n]]

\* the sanitized label of a row
LabelOf(row) == _clean_text(get_text(Col(row, 1)))

\* the last request was a write that update-results answered with success
Wrote == req.op = "update-results" /\ resp.status = 200

\* the "results" entries of the last request
Items == req.results.items

\* the three match channels of an entry key k against the text of column 0
ExactMatch(k, raw) == k = raw

CaseMatch(k, raw) == lower(strip(k)) = lower(strip(raw))

NormMatch(k, raw) == _norm(k) = _norm(raw)

AnyMatch(k, raw) == ExactMatch(k, raw) \/ CaseMatch(k, raw) \/ NormMatch(k, raw)

\* the cell holds the string s and nothing else
Holds(cell, s) == cell.kids = IF s = EmptyStr THEN <<>> ELSE <<TextKid(s)>>

\* the last request was a write by a 'maquina' account with a non-empty
\* "results" object, and eLabFTW answered its calls
ValidWrite ==
    /\ req.op = "update-results"
    /\ req.rid \in DOMAIN researchers /\ researchers[req.rid].role = "maquina"
    /\ req.results.t = "dict" /\ req.results.items # <<>>
    /\ req.elabOk

\* the parser found a <table> in the body the last request read
HadTable == FirstTable(req.body) # 0 /\ ~req.raised

\* row r of the first table before and after the write
OldRow(r) == FirstTableRows(req.body)[r]

NewRow(r) == FirstTableRows(expBody)[r]

RowNumbers == 1..Len(FirstTableRows(req.body))

\* positions of the entries whose key matches raw through channel M
Hits(M(_, _), raw) == {i \in 1..Len(Items) : M(Items[i].k, raw)}

\* the body before and after the write have the same shape
SameShape(a, b) ==
    /\ Len(a) = Len(b)
    /\ \A i \in 1..Len(a) :
          /\ a[i].kind = b[i].kind
          /\ IsTable(a[i]) =>
                /\ Len(a[i].rows) = Len(b[i].rows)
                /\ \A r \in 1..Len(a[i].rows) :
                      /\ Len(a[i].rows[r]) = Len(b[i].rows[r])
                      /\ \A c \in 1..Len(a[i].rows[r]) :
                            a[i].rows[r][c].tag = b[i].rows[r][c].tag

\* the fields a list holds, as a set
FieldSet(fields) == {fields[i] : i \in 1..Len(fields)}

----------------------------------------------------------------------------
(* C1: write propagation.  As stated: after the patch {L: v} is applied to  *)
(* a body whose first table has a row of at least two <td> with label L     *)
(* (non-empty, not on the denylist), reading the body back yields a Field   *)
(* with label L and value v, for any string v.                              *)

C1_Case(row) ==
    /\ Wrote /\ HadTable /\ Len(Items) = 1 /\ Items[1].v # None
    /\ DataRow(row)
    /\ LabelOf(row) = Items[1].k
    /\ LabelOf(row) # EmptyStr
    /\ lower(strip(LabelOf(row))) \notin Denylist

C1_ReadBack ==
    \E f \in FieldSet(ExperimentFields(expBody)) :
        f.label = Items[1].k /\ f.value = Items[1].v.s

----------------------------------------------------------------------------
(* C2: the order of the match channels.  As stated: (a) exact match of the  *)
(* row label against a patch key, then (b) case-insensitive/trimmed match,  *)
(* then (c) normalized-key match; of two keys matching the same row through *)
(* different channels, the one of the earlier channel supplies the value.   *)

\* the values the stated order allows for a row whose column 0 reads raw
C2_StatedValues(raw) ==
    IF Hits(ExactMatch, raw) # {} THEN {Items[i].v : i \in Hits(ExactMatch, raw)}
    ELSE IF Hits(CaseMatch, raw) # {} THEN {Items[i].v : i \in Hits(CaseMatch, raw)}
    ELSE {Items[i].v : i \in Hits(NormMatch, raw)}

C2_Original ==
    (Wrote /\ HadTable /\ \A i \in 1..Len(Items) : Items[i].v # None)
    => \A r \in RowNumbers :
          (DataRow(OldRow(r)) /\ C2_StatedValues(get_text(Col(OldRow(r), 1))) # {})
          => \E v \in C2_StatedValues(get_text(Col(OldRow(r), 1))) :
                Holds(Col(NewRow(r), 2), v.s)

\* C2 as amended: the writer tries (a) the row label equal to a patch key
\* once the key is trimmed, then (c) the normalized-key match, and only then
\* (b) the case-insensitive/trimmed match; within (a) and within (c) the last
\* matching key of the patch's iteration order supplies the value, so (b)
\* never decides (a key it matches also matches through (c)); the chosen
\* value is written unless it is null, and then the row is left as it was;
\* all this when BeautifulSoup parses the body (HadTable).
TrimMatch(k, raw) == strip(k) = raw

C2_Chosen(raw) ==
    IF Hits(TrimMatch, raw) # {} THEN Items[SetMax(Hits(TrimMatch, raw))].v
    ELSE IF Hits(NormMatch, raw) # {} THEN Items[SetMax(Hits(NormMatch, raw))].v
    ELSE None

C2_ChannelOrder ==
    (Wrote /\ HadTable)
    => \A r \in RowNumbers :
          DataRow(OldRow(r))
          => LET v == C2_Chosen(get_text(Col(OldRow(r), 1)))
             IN  IF v # None THEN Holds(Col(NewRow(r), 2), v.s)
                 ELSE NewRow(r) = OldRow(r)

\* two keys match the row, one without regard to case and one only once
\* normalized, and the value written is that of the second
C2_Witness ==
    /\ Wrote /\ HadTable /\ Len(Items) = 2
    /\ \E r \in RowNumbers :
          /\ DataRow(OldRow(r))
          /\ Hits(ExactMatch, get_text(Col(OldRow(r), 1))) = {}
          /\ Hits(CaseMatch, get_text(Col(OldRow(r), 1))) = {1}
          /\ Hits(NormMatch, get_text(Col(OldRow(r), 1))) = {1, 2}
          /\ Items[1].v # Items[2].v
          /\ Holds(Col(NewRow(r), 2), Items[2].v.s)

----------------------------------------------------------------------------
(* C3: the frame of a write.  As stated: only the column-1 cell of the rows *)
(* whose label matches a patch entry changes, its whole content replaced by *)
(* the stringified value; every other cell, every non-matching row, every   *)
(* other table and the markup outside the table stay as they were.          *)

\* the cells of a row other than its second <td> are as before
C3_OtherCellsKept(r) ==
    /\ Len(NewRow(r)) = Len(OldRow(r))
    /\ \A c \in 1..Len(OldRow(r)) :
          (DataRow(OldRow(r)) /\ c = TdIndexes(OldRow(r))[2])
          \/ NewRow(r)[c] = OldRow(r)[c]

\* everything but the first table is as before
C3_OutsideKept ==
    /\ Len(expBody) = Len(req.body)
    /\ \A i \in 1..Len(req.body) :
          i = FirstTable(req.body) \/ expBody[i] = req.body[i]
    /\ Len(FirstTableRows(expBody)) = Len(FirstTableRows(req.body))

C3_Matched(r) ==
    DataRow(OldRow(r)) /\ Hits(AnyMatch, get_text(Col(OldRow(r), 1))) # {}

----------------------------------------------------------------------------
(* C4: unmatched patch entries are silently ignored.  As stated: when the   *)
(* body has a table and no key of a non-empty patch matches any row through *)
(* any of the three channels, the write raises no error and the document it *)
(* produces has the same table structure and the same cell texts as the     *)
(* input.                                                                   *)

C4_NoKeyMatches ==
    \A r \in RowNumbers :
        DataRow(OldRow(r)) => Hits(AnyMatch, get_text(Col(OldRow(r), 1))) = {}

C4_SameCellTexts ==
    \A i \in 1..Len(req.body) :
        IsTable(req.body[i])
        => \A r \in 1..Len(req.body[i].rows) :
              \A c \in 1..Len(req.body[i].rows[r]) :
                  get_text(expBody[i].rows[r][c]) = get_text(req.body[i].rows[r][c])

----------------------------------------------------------------------------
(* C5: the flat text and the HTML document.  As stated: the writer produces *)
(* the flat text (one line "{key}: {value}" per patch entry, in the patch's *)
(* iteration order) when the body has no table, and the rewritten HTML      *)
(* document, never the flat text, when it has one.                          *)

C5_Line(e) == e.k \o <<":", " ">> \o (IF e.v = None THEN <<"N","o","n","e">> ELSE e.v.s)

RECURSIVE C5_Lines(_)
C5_Lines(items) ==
    IF Len(items) = 1 THEN C5_Line(items[1])
    ELSE C5_Line(items[1]) \o <<"\n">> \o C5_Lines(Tail(items))

C5_IsFlat == expBody = << [kind |-> "text", txt |-> C5_Lines(Items)] >>

----------------------------------------------------------------------------
(* C6: a write whose patch is empty or not a map.  As stated: it is a no-op *)
(* write, which completes without an error outcome and leaves the stored    *)
(* body unchanged.                                                          *)

C6_Case ==
    /\ req.op = "update-results"
    /\ req.rid \in DOMAIN researchers /\ researchers[req.rid].role = "maquina"
    /\ (req.results.t # "dict" \/ req.results.items = <<>>)

C6_Original == C6_Case => (resp.status = 200 /\ expBody = req.body)

\* C6 as amended: it is rejected with status 400 before any call to eLabFTW,
\* and the stored body is unchanged.
C6_Rejected ==
    C6_Case => (resp.status = 400 /\ resp.calls = <<>> /\ expBody = req.body)

\* an empty "results" object sent for a body with a table
C6_Witness ==
    C6_Case /\ req.results = Dict(<<>>) /\ HadTable /\ resp.status = 400

----------------------------------------------------------------------------
(* Vocabulary of the properties of the two reads                            *)

\* the last request was a read of the experiment body, or of the template,
\* answered with success; req.body is the body that was parsed
ReadBody == req.op = "body" /\ resp.status = 200

ReadTemplate == req.op = "templates" /\ resp.status = 200

\* a row the parser is to turn into a Field: two <td> at least and a label
\* that is not empty and not on the denylist
LabelledRow(row) ==
    /\ DataRow(row)
    /\ LabelOf(row) # EmptyStr
    /\ lower(strip(LabelOf(row))) \notin Denylist

----------------------------------------------------------------------------
(* C7: the table parser emits a Field for every row of the first table that *)
(* has at least two <td> cells and a non-empty, non-denylisted label, in    *)
(* the template read and in the experiment-body read; for a row of exactly  *)
(* two cells, unit, reference and observation are the empty string.  (Rows  *)
(* whose key is empty are left to C8.)                                      *)

C7_Emitted(row) ==
    \E f \in FieldSet(resp.fields) :
        /\ f.label = LabelOf(row)
        /\ f.value = _clean_text(get_text(Col(row, 2)))
        /\ Len(TdIndexes(row)) = 2
           => (f.unit = EmptyStr /\ f.reference = EmptyStr /\ f.observation = EmptyStr)

C7_Original ==
    (ReadBody \/ ReadTemplate)
    => \A r \in RowNumbers :
          (LabelledRow(OldRow(r)) /\ DeriveKey(LabelOf(OldRow(r))) # EmptyStr)
          => C7_Emitted(OldRow(r))

----------------------------------------------------------------------------
(* C8: every Field emitted by any parse path (table rows of the template    *)
(* read, table rows of the experiment-body read, placeholder fallback) has  *)
(* a non-empty key made only of [a-z0-9] and single underscores, with no    *)
(* leading or trailing underscore.                                          *)

ValidKey(k) ==
    /\ k # EmptyStr
    /\ \A i \in 1..Len(k) : k[i] \in AlnumLower \cup {"_"}
    /\ k[1] # "_" /\ k[Len(k)] # "_"
    /\ \A i \in 1..(Len(k) - 1) : ~(k[i] = "_" /\ k[i + 1] = "_")

C8_Original ==
    (ReadBody \/ ReadTemplate)
    => \A f \in FieldSet(resp.fields) : ValidKey(f.key)

----------------------------------------------------------------------------
(* C9: malformed cell defense: when column 0 of a row carries inline style  *)
(* markup, <td><span style="color:red">x</span></td>, the sanitized label   *)
(* of the row is the empty string and the row is not in the field list.     *)

Styled(cell) ==
    \E i \in 1..Len(cell.kids) : cell.kids[i].tag = "span" /\ cell.kids[i].style

C9_Original ==
    (ReadBody \/ ReadTemplate)
    => \A r \in RowNumbers :
          (DataRow(OldRow(r)) /\ Styled(Col(OldRow(r), 1)))
          => /\ LabelOf(OldRow(r)) = EmptyStr
             /\ \A f \in FieldSet(resp.fields) :
                   f.label # get_text(Col(OldRow(r), 1))

----------------------------------------------------------------------------
(* C10: placeholder fallback.  As stated: whenever the body has no table or *)
(* its table yields zero fields, every parse entry point returns the fields *)
(* derived from the {{identifier}} tokens of the raw body (keys             *)
(* agendamento_id and tipo_amostra, all other attributes empty) instead of  *)
(* an empty list.                                                           *)

C10_AgendamentoId == <<"a","g","e","n","d","a","m","e","n","t","o","_","i","d">>

C10_TipoAmostra == <<"t","i","p","o","_","a","m","o","s","t","r","a">>

C10_TokenField(name) == Field(name, name, EmptyStr, EmptyStr, EmptyStr, EmptyStr)

\* the body parsed was <p>no table here {{agendamento_id}} {{tipo_amostra}}</p>
C10_Example ==
    req.body = BodyPlaceholders
    => resp.fields = << C10_TokenField(C10_AgendamentoId), C10_TokenField(C10_TipoAmostra) >>

----------------------------------------------------------------------------
(* C11: in placeholder fallback mode the parser emits exactly one Field per *)
(* distinct placeholder token: a token that occurs several times in the     *)
(* body yields a single Field, so no two emitted Fields have the same       *)
(* label.                                                                   *)

\* the template read took the placeholder fallback
C11_Fallback == ReadTemplate /\ TemplateTableFields(req.body) = <<>>

C11_Original ==
    C11_Fallback
    => \A i, j \in 1..Len(resp.fields) :
          i # j => resp.fields[i].label # resp.fields[j].label

----------------------------------------------------------------------------
(* C12: key agreement between read and write: for every row label, the key  *)
(* the parser derives for the row at read time equals the normalized key    *)
(* the writer derives for the same row at write time, so a patch keyed by a *)
(* key or a label the parser returned for a row rewrites that row.          *)

\* the key of the reader and the key of the writer for one row
C12_ReadKey(row) == DeriveKey(LabelOf(row))

C12_WriteKey(row) == _norm(get_text(Col(row, 1)))

\* some entry of the patch is keyed by what the parser returned for the row
C12_KeyedByParser(row) ==
    \E i \in 1..Len(Items) : Items[i].k \in {LabelOf(row), C12_ReadKey(row)}

C12_Original ==
    (Wrote /\ HadTable /\ \A i \in 1..Len(Items) : Items[i].v # None)
    => \A r \in RowNumbers :
          LabelledRow(OldRow(r))
          => /\ C12_ReadKey(OldRow(r)) = C12_WriteKey(OldRow(r))
             /\ C12_KeyedByParser(OldRow(r))
                => \E i \in 1..Len(Items) : Holds(Col(NewRow(r), 2), Items[i].v.s)

----------------------------------------------------------------------------
(* C13: normalize_key is idempotent and deterministic: for every label L,   *)
(* normalize_key(normalize_key(L)) = normalize_key(L), and two evaluations  *)
(* on the same L give the same key, for the copy of the derivation in the   *)
(* parser and for the copy in the writer.                                   *)

C13_IdempotentDeterministic ==
    /\ \A i \in 1..Len(norm.evals) : norm.evals[i] = norm.evals[1]
    /\ \A i \in 1..Len(norm.re) : norm.re[i] = norm.evals[1]

\* a label with an upper-case letter, an underscore and a sign, evaluated
\* twice and its key evaluated again
C13_Witness ==
    /\ Len(norm.evals) = 2 /\ Len(norm.re) = 1
    /\ norm.label = <<"_", "B", "%">>
    /\ norm.evals[1] = <<"b">>
    /\ norm.re[1] = <<"b">>

----------------------------------------------------------------------------
(* C14: case/whitespace-insensitive matching: a table row whose label       *)
(* differs from a patch key only by letter case and by leading/trailing     *)
(* white space (row "  ureia  ", patch key "Ureia") is matched by the       *)
(* writer through the normalized-key channel and its value cell is          *)
(* rewritten with the value of the key (a value that is not null).          *)

\* the characters of a cell as they stand in the document
C14_CellChars(cell) == Flatten([i \in 1..Len(cell.kids) |-> cell.kids[i].txt])

\* entries whose key is the cell's characters but for case and the white
\* space around them, and is not the row's text itself
C14_Keys(row) ==
    {i \in 1..Len(Items) :
        /\ lower(strip(Items[i].k)) = lower(strip(C14_CellChars(Col(row, 1))))
        /\ Items[i].k # get_text(Col(row, 1))}

C14_CaseInsensitive ==
    (Wrote /\ HadTable)
    => \A r \in RowNumbers :
          (/\ DataRow(OldRow(r))
           /\ C14_Keys(OldRow(r)) # {}
           /\ Hits(TrimMatch, get_text(Col(OldRow(r), 1))) = {}
           /\ \A i \in 1..Len(Items) : Items[i].v # None)
          => /\ C14_Keys(OldRow(r)) \subseteq Hits(NormMatch, get_text(Col(OldRow(r), 1)))
             /\ Holds(Col(NewRow(r), 2),
                      Items[SetMax(Hits(NormMatch, get_text(Col(OldRow(r), 1))))].v.s)

\* the row "  ureia  " rewritten by the key "Ureia"
C14_Witness ==
    /\ Wrote /\ HadTable
    /\ \E r \in RowNumbers :
          /\ DataRow(OldRow(r))
          /\ C14_CellChars(Col(OldRow(r), 1)) = S_UreiaPadded
          /\ \E i \in C14_Keys(OldRow(r)) :
                /\ Items[i].k = S_Ureia
                /\ Holds(Col(NewRow(r), 2), Items[i].v.s)
                /\ ~Holds(Col(OldRow(r), 2), Items[i].v.s)

----------------------------------------------------------------------------
(* C15: denylist filtering: a row with at least two <td> cells whose        *)
(* lower-cased sanitized label is one of the known header strings           *)
(* ("parâmetro", "resultado", "hemograma", "série branca") never appears in *)
(* the parsed field list, in the template read and in the experiment-body   *)
(* read.                                                                    *)

C15_Headers ==
    { <<"p","a","r","â","m","e","t","r","o">>,
      <<"r","e","s","u","l","t","a","d","o">>,
      <<"h","e","m","o","g","r","a","m","a">>,
      <<"s","é","r","i","e"," ","b","r","a","n","c","a">> }

C15_HeaderRow(row) == DataRow(row) /\ lower(LabelOf(row)) \in C15_Headers

C15_DenylistFiltered ==
    (ReadBody \/ ReadTemplate)
    => \A r \in RowNumbers :
          C15_HeaderRow(OldRow(r))
          => \A f \in FieldSet(resp.fields) : f.label # LabelOf(OldRow(r))

\* a header row of three <td> among rows that yield fields, read as a
\* template
C15_Witness ==
    /\ ReadTemplate /\ resp.fields # <<>>
    /\ \E r \in RowNumbers :
          C15_HeaderRow(OldRow(r)) /\ Len(TdIndexes(OldRow(r))) >= 3

----------------------------------------------------------------------------
(* C16: row filtering: a row that has fewer than two <td> cells (a single   *)
(* <td colspan="5"> section cell, or a row made only of <th> cells) never   *)
(* produces a Field, and the writer never rewrites any cell of such a row.  *)

\* the text of the first cell of a row, <td> or <th>
C16_FirstCellText(row) == IF row = <<>> THEN EmptyStr ELSE get_text(row[1])

----------------------------------------------------------------------------
(* C17: when the body contains several tables, the parser emits fields only *)
(* from the first table, in the document order of its rows, and the writer  *)
(* rewrites cells only in the first table.                                  *)

\* the first <table> of a body that has one
C17_First(body) ==
    CHOOSE i \in 1..Len(body) :
        IsTable(body[i]) /\ \A j \in 1..(i - 1) : ~IsTable(body[j])

C17_Tables(body) == {i \in 1..Len(body) : IsTable(body[i])}

\* the labels of the rows of two <td> and more of a table, in row order
C17_Labels(table) ==
    LET rows == SelectSeq(table.rows, DataRow)
    IN  [r \in 1..Len(rows) |-> LabelOf(rows[r])]

RECURSIVE C17_IsSubsequence(_, _)
C17_IsSubsequence(a, b) ==
    IF a = <<>> THEN TRUE
    ELSE IF b = <<>> THEN FALSE
    ELSE IF a[1] = b[1] THEN C17_IsSubsequence(Tail(a), Tail(b))
    ELSE C17_IsSubsequence(a, Tail(b))

C17_FieldLabels == [i \in 1..Len(resp.fields) |-> resp.fields[i].label]

C17_FirstTableOnly ==
    /\ ((ReadBody \/ ReadTemplate) /\ C17_Tables(req.body) # {}
          /\ Placeholders(Raw(req.body)) = <<>>)
       => C17_IsSubsequence(C17_FieldLabels,
                            C17_Labels(req.body[C17_First(req.body)]))
    /\ (Wrote /\ HadTable)
       => /\ Len(expBody) = Len(req.body)
          /\ \A i \in 1..Len(req.body) :
                i # C17_First(req.body) => expBody[i] = req.body[i]

\* two fields read from the first of two tables, the second table holding a
\* row that would yield a field of another label
C17_Witness ==
    /\ ReadTemplate /\ Len(resp.fields) = 2
    /\ \E i \in C17_Tables(req.body) :
          /\ i # C17_First(req.body)
          /\ \E r \in 1..Len(req.body[i].rows) :
                /\ LabelledRow(req.body[i].rows[r])
                /\ Len(TdIndexes(req.body[i].rows[r])) >= 3
                /\ \A f \in FieldSet(resp.fields) :
                      f.label # LabelOf(req.body[i].rows[r])

----------------------------------------------------------------------------
(* C18: the parse and write transformations are total: for every body and   *)
(* every patch no exception propagates out of them; a failure while parsing *)
(* a table degrades to "no fields found" in the parser and is never         *)
(* reported to the caller as an error.                                      *)

\* the requester is a row of Researcher with one of the roles
C18_Role(roles) ==
    req.rid \in DOMAIN researchers /\ researchers[req.rid].role \in roles

C18_Total ==
    /\ (req.op = "body" /\ C18_Role({"maquina", "admin"}) /\ req.elabOk)
       => /\ resp.status = 200
          /\ req.raised => resp.fields = <<>>
    /\ (req.op = "templates" /\ req.elabOk)
       => /\ resp.status = 200
          /\ req.raised => resp.fields = PlaceholderFields(req.body)
    /\ ValidWrite
       => /\ resp.status = 200
          /\ resp.calls = <<"GET", "PATCH">>
          /\ req.raised => C5_IsFlat

\* a write on whose body BeautifulSoup raised, answered with success
C18_Witness ==
    /\ ValidWrite /\ req.raised /\ resp.status = 200
    /\ FirstTable(req.body) # 0
    /\ C5_IsFlat

----------------------------------------------------------------------------
(* C19: concurrent calls of the parse and write operations do not interfere *)
(* with each other: in every interleaving of concurrent requests, the       *)
(* result each call produces is the one it produces when it runs alone on   *)
(* the same input.                                                          *)

\* what the call of a client produces when no other call runs between its
\* two steps: the sequential handler's result on the body it read
C19_Alone(call) ==
    IF call.op = "update-results"
    THEN WrittenBody(call.input, call.results.items, call.raises)
    ELSE IF call.op = "body" THEN BodyReadFields(call.input, call.raises)
    ELSE TemplateReadFields(call.input, call.raises)

----------------------------------------------------------------------------
(* C20: update-results is reserved to accounts with role 'maquina': a       *)
(* request whose researcher-id is unknown is rejected with 401 and one      *)
(* whose requester has any other role with 403, and in both cases, and when *)
(* the 'results' payload is invalid (400), no read of and no write to the   *)
(* experiment in eLabFTW is made.                                           *)

\* the call was answered with the status and eLabFTW was left alone
C20_RejectedWith(status) ==
    resp.status = status /\ resp.calls = <<>> /\ expBody = req.body

C20_ReservedToMaquina ==
    req.op = "update-results"
    => /\ req.rid \notin DOMAIN researchers => C20_RejectedWith(401)
       /\ (req.rid \in DOMAIN researchers /\ researchers[req.rid].role # "maquina")
          => C20_RejectedWith(403)
       /\ (/\ req.rid \in DOMAIN researchers /\ researchers[req.rid].role = "maquina"
           /\ (req.results.t # "dict" \/ req.results.items = <<>>))
          => C20_RejectedWith(400)

\* an 'admin' account sends a patch that matches a row of the body
C20_Witness ==
    /\ req.op = "update-results"
    /\ req.rid \in DOMAIN researchers /\ researchers[req.rid].role = "admin"
    /\ resp.status = 403
    /\ req.results.t = "dict" /\ Len(Items) = 1
    /\ \E r \in RowNumbers :
          DataRow(OldRow(r)) /\ Items[1].k = get_text(Col(OldRow(r), 1))

----------------------------------------------------------------------------
(* The local database (src/src/backend/database.py, models.py)              *)

S_RolePesquisador == <<"p","e","s","q","u","i","s","a","d","o","r">>

S_RoleAdmin == <<"a","d","m","i","n">>

S_RoleAdminLoud == <<" ","A","d","m","i","n"," ">>

S_RoleMaquina == <<"m","a","q","u","i","n","a">>

S_RoleChefe == <<"c","h","e","f","e">>

allowed_roles == {"pesquisador", "admin", "maquina"}

\* the characters of a stored role
RoleChars ==
    ("pesquisador" :> S_RolePesquisador) @@ ("admin" :> S_RoleAdmin)
    @@ ("maquina" :> S_RoleMaquina)

\* the role register_researcher stores for the argument role (None, or a str)
NormalRole(role) ==
    IF role = None \/ role.s = <<>> THEN "pesquisador"
    ELSE LET r == lower(strip(role.s))
         IN  IF \E a \in allowed_roles : RoleChars[a] = r
             THEN CHOOSE a \in allowed_roles : RoleChars[a] = r
             ELSE "pesquisador"

\* db.query(Researcher).filter(Researcher.name == name).first(): the id of the
\* row, 0 when there is none
ByName(rs, name) ==
    IF \E i \in DOMAIN rs : rs[i].name = name
    THEN SetMin({i \in DOMAIN rs : rs[i].name = name})
    ELSE 0

\* the columns name and elab_item_id are unique
UniqueResearchers(rs) ==
    \A i, j \in DOMAIN rs :
        i # j => /\ rs[i].name # rs[j].name
                 /\ rs[i].elab_item_id = 0 \/ rs[i].elab_item_id # rs[j].elab_item_id

\* the id the database gives to a new row
NextResearcherId(rs) == IF DOMAIN rs = {} THEN 1 ELSE SetMax(DOMAIN rs) + 1

\* the existing row after the updates of register_researcher
UpdatedRow(row, password, elab_item_id, role) ==
    [row EXCEPT
        !.elab_item_id = IF elab_item_id # 0 /\ @ = 0 THEN elab_item_id ELSE @,
        !.password = IF password # "" /\ @ # password THEN password ELSE @,
        !.role = IF @ # NormalRole(role) THEN NormalRole(role) ELSE @]

\* the table register_researcher asks the database to commit: existing is
\* the id its query found (0 for none)
RegisterWrite(rs, existing, name, password, elab_item_id, role) ==
    IF existing # 0
    THEN [rs EXCEPT ![existing] = UpdatedRow(@, password, elab_item_id, role)]
    ELSE rs @@ (NextResearcherId(rs) :>
                    Researcher(name, password, NormalRole(role), elab_item_id))

\* register_researcher: the table it leaves and the id of the row it returns
\* (0 for None); dbOk says whether the database serves the transaction, and
\* a commit that breaks a unique column raises and is rolled back
register_researcher(rs, existing, name, password, elab_item_id, role, dbOk) ==
    LET asked == RegisterWrite(rs, existing, name, password, elab_item_id, role)
    IN  IF ~dbOk \/ ~UniqueResearchers(asked) THEN [rs |-> rs, id |-> 0]
        ELSE [rs |-> asked,
              id |-> IF existing # 0 THEN existing ELSE NextResearcherId(rs)]

\* the rows of Experiment with this elab_experiment_id
ByElabId(es, experiment_id) == {e \in es : e.elab_experiment_id = experiment_id}

\* register_experiment: the table it leaves and what it returns
register_experiment(es, rs, agendamento_id, elab_experiment_id, researcher_local_id, dbOk) ==
    IF ~dbOk THEN [es |-> es, ok |-> FALSE]
    ELSE IF \E e \in es : e.id = agendamento_id THEN [es |-> es, ok |-> TRUE]
    ELSE IF researcher_local_id \notin DOMAIN rs THEN [es |-> es, ok |-> FALSE]
    ELSE IF ByElabId(es, elab_experiment_id) # {} THEN [es |-> es, ok |-> FALSE]
    ELSE [es |-> es \cup {Experiment(agendamento_id, elab_experiment_id,
                                     researcher_local_id)},
          ok |-> TRUE]

----------------------------------------------------------------------------
(* register_researcher called on the table (POST /pesquisadores of          *)
(* src/src/backend/main.py calls it with no role and without looking the    *)
(* name up first)                                                           *)

S_Caio == <<"c","a","i","o">>

\* the arguments register_researcher is called with
\* (elab_item_id 3 is the item of another row; with dbOk FALSE the database
\* is down)
RegisterCalls ==
    [name : {S_Ana, S_Bia, S_Caio}, password : {"", "pw9"}, elab_item_id : {0, 9},
     role : {None, StrVal(S_RoleAdminLoud), StrVal(S_RoleChefe)}, dbOk : {TRUE}]
    \cup [name : {S_Ana, S_Caio}, password : {"pw9"}, elab_item_id : {3},
          role : {None}, dbOk : {TRUE}]
    \cup [name : {S_Ana, S_Caio}, password : {"pw9"}, elab_item_id : {9},
          role : {None}, dbOk : {FALSE}]

InitRegister ==
    /\ researchers = InitResearchers
    /\ experiments = InitExperiments
    /\ elab = InitElab
    /\ expBody = BodyHb
    /\ tplBody = BodyHb
    /\ req = [op |-> "none"]
    /\ resp = [status |-> 0]
    /\ inflight = [c \in Clients |-> Idle]
    /\ norm = NormIdle

call_register_researcher(a) ==
    LET done == register_researcher(researchers, ByName(researchers, a.name), a.name,
                                    a.password, a.elab_item_id, a.role, a.dbOk)
    IN  /\ researchers' = done.rs
        /\ req' = [op |-> "register_researcher", name |-> a.name,
                   password |-> a.password, elab_item_id |-> a.elab_item_id,
                   role |-> a.role, dbOk |-> a.dbOk, before |-> researchers]
        /\ resp' = [status |-> 0, id |-> done.id]
        /\ UNCHANGED <<experiments, elab, expBody, tplBody, inflight, norm>>

NextRegister == \E a \in RegisterCalls : call_register_researcher(a)

SpecRegister == InitRegister /\ [][NextRegister]_vars

----------------------------------------------------------------------------
(* C23: register_researcher on a name that already exists never creates a  *)
(* second record and updates elab_item_id, password and role only when the  *)
(* corresponding argument is provided: a call that provides no role leaves  *)
(* the stored role of the existing researcher unchanged.                    *)

\* register_researcher was called on a name the table had
C23_OnExisting ==
    req.op = "register_researcher" /\ ByName(req.before, req.name) # 0

C23_Original ==
    C23_OnExisting
    => LET i == ByName(req.before, req.name)
       IN  /\ DOMAIN researchers = DOMAIN req.before
           /\ \A j \in DOMAIN researchers \ {i} : researchers[j] = req.before[j]
           /\ researchers[i].name = req.name
           /\ req.elab_item_id = 0
              => researchers[i].elab_item_id = req.before[i].elab_item_id
           /\ req.password = ""
              => researchers[i].password = req.before[i].password
           /\ req.role = None => researchers[i].role = req.before[i].role

----------------------------------------------------------------------------
(* The eLabFTW service (src/src/backend/elab_service.py).  A function of   *)
(* the service is given the store, its arguments and fail, the call that   *)
(* eLabFTW answers with an error status ("none": it serves them all), and  *)
(* gives the store it leaves, the id it returns and whether it raised.     *)

ITEM_TYPE_TITLE == S_Pesquisador

S_PesquisadorPadded == <<" ","p","e","s","q","u","i","s","a","d","o","r"," ">>

\* the calls the gateway makes to eLabFTW
ElabCalls ==
    {"GET items_types", "POST items_types", "POST items",
     "GET experiments_templates", "POST experiments", "PATCH experiments",
     "POST items_links", "GET experiments"}

Returned(e, id) == [elab |-> e, id |-> id, raised |-> FALSE]

Raised(e) == [elab |-> e, id |-> 0, raised |-> TRUE]

\* the item types of a listing whose title is ITEM_TYPE_TITLE, trimmed and
\* whatever the case
TitledPesquisador(types) ==
    {i \in 1..Len(types) : lower(strip(types[i].title)) = lower(ITEM_TYPE_TITLE)}

\* the loop of ensure_item_type_researcher over a listing: the id it
\* returns, 0 when it falls through
FoundItemType(types) ==
    IF TitledPesquisador(types) = {} THEN 0
    ELSE types[SetMin(TitledPesquisador(types))].id

\* POST items_types
PostItemType(e) ==
    [e EXCEPT !.items_types =
        Append(@, [id |-> Len(@) + 1, title |-> ITEM_TYPE_TITLE])]

\* ensure_item_type_researcher, given the listing its GET returned
EnsureFromListing(e, types, fail) ==
    IF FoundItemType(types) # 0 THEN Returned(e, FoundItemType(types))
    ELSE IF fail = "POST items_types" THEN Raised(e)
    ELSE Returned(PostItemType(e), Len(e.items_types) + 1)

ensure_item_type_researcher(e, fail) ==
    IF fail = "GET items_types" THEN Raised(e)
    ELSE EnsureFromListing(e, e.items_types, fail)

\* POST items
PostItem(e, name, items_type_id) ==
    [e EXCEPT !.items =
        Append(@, [id |-> Len(@) + 1, title |-> strip(name),
                   items_type_id |-> items_type_id])]

\* register_researcher_item after ensure_item_type_researcher gave ensured
RegisterItem(ensured, name, fail) ==
    IF ensured.raised \/ fail = "POST items" THEN Raised(ensured.elab)
    ELSE Returned(PostItem(ensured.elab, name, ensured.id),
                  Len(ensured.elab.items) + 1)

register_researcher_item(e, name, fail) ==
    IF strip(name) = <<>> THEN Raised(e)
    ELSE RegisterItem(ensure_item_type_researcher(e, fail), name, fail)

\* "{{placeholder}}"
Token(placeholder) == <<"{", "{">> \o placeholder \o <<"}", "}">>

\* s.replace(old, new), old not empty
RECURSIVE Replace(_, _, _)
Replace(s, old, new) ==
    IF Len(s) < Len(old) THEN s
    ELSE IF SubSeq(s, 1, Len(old)) = old
    THEN new \o Replace(SubSeq(s, Len(old) + 1, Len(s)), old, new)
    ELSE <<s[1]>> \o Replace(Tail(s), old, new)

\* the loop of create_experiment over vars_dict.items(), in the order of the
\* dict
RECURSIVE Substituted(_, _)
Substituted(body, items) ==
    IF items = <<>> THEN body
    ELSE Substituted(Replace(body, Token(items[1].k), items[1].v), Tail(items))

\* the experiment POST experiments creates
NewExperiment(e, title) ==
    [id |-> Len(e.experiments) + 1, title |-> strip(title), body |-> <<>>,
     items_links |-> {}]

\* create_experiment: found says whether get_template_object_by_title finds
\* the template or its fallback, template is the body of the one it finds
create_experiment(e, template, found, title, vars_dict, fail) ==
    IF strip(title) = <<>> THEN Raised(e)
    ELSE IF fail = "GET experiments_templates" \/ ~found THEN Raised(e)
    ELSE IF Raw(template) = <<>> THEN Raised(e)
    ELSE IF fail = "POST experiments" THEN Raised(e)
    ELSE LET id      == Len(e.experiments) + 1
             created == [e EXCEPT !.experiments = Append(@, NewExperiment(e, title))]
         IN  IF fail = "PATCH experiments" THEN Raised(created)
             ELSE Returned([created EXCEPT !.experiments[id].body =
                                Substituted(Raw(template), vars_dict)],
                           id)

\* link_experiment_to_item (fail: both forms of the POST are refused)
link_experiment_to_item(e, exp_id, item_id, fail) ==
    IF fail = "POST items_links" THEN Raised(e)
    ELSE Returned([e EXCEPT !.experiments[exp_id].items_links = @ \cup {item_id}],
                  exp_id)

\* whether eLabFTW has the experiment
HasExperiment(e, exp_id) == exp_id \in 1..Len(e.experiments)

\* get_status and export_pdf: whether the GET of the experiment raises
ReadRaises(e, exp_id, fail) == fail = "GET experiments" \/ ~HasExperiment(e, exp_id)

----------------------------------------------------------------------------
(* The gateway's experiment endpoints: POST /experimentos,                  *)
(* GET /experimentos/{id}/status and GET /experimentos/{id}/pdf             *)

S_A1 == <<"A","1">>

S_A2 == <<"A","2">>

S_Sangue == <<"S","a","n","g","u","e">>

S_Today == <<"2","0","2","5","-","0","1","-","0","2">>

S_Now == <<"2","0","2","5","-","0","1","-","0","2","T","1","0",":","3","0">>

\* eLabFTW holds at most this many experiments
MaxExperiments == 2

\* the researcher-id headers of the requests; 5 is no row of Researcher
GatewayIds == 1..5

\* bodies of POST /experimentos
ExperimentRequests ==
    [agendamento_id : {S_A1, S_A2}, researcher_id : {2, 4},
     tipo_amostra : {S_Sangue}, display_name : {S_Ana}]

\* the title create_new_experiment gives to the experiment
Title(r) ==
    <<"[","A","G",":">> \o r.agendamento_id
    \o <<"]"," ","A","n","á","l","i","s","e","s"," ">> \o r.display_name
    \o <<" ","-"," ">> \o S_Today

\* its vars_dict
VarsDict(r) ==
    << [k |-> <<"a","g","e","n","d","a","m","e","n","t","o","_","i","d">>,
        v |-> r.agendamento_id],
       [k |-> <<"d","a","t","a","_","c","o","l","e","t","a">>, v |-> S_Now],
       [k |-> <<"t","i","p","o","_","a","m","o","s","t","r","a">>,
        v |-> r.tipo_amostra] >>

\* the requests to POST /experimentos: the header, the body, whether the
\* template is found, the call eLabFTW refuses and whether the database
\* serves register_experiment
CreateCalls ==
    [rid : {2, 4}, r : ExperimentRequests, found : {TRUE},
     fail : {"none"}, dbOk : {TRUE}]
    \cup [rid : GatewayIds \ {2, 4},
          r : {x \in ExperimentRequests : x.agendamento_id = S_A1},
          found : {TRUE}, fail : {"none"}, dbOk : {TRUE}]
    \cup [rid : {2},
          r : {x \in ExperimentRequests :
                  x.researcher_id = 2 /\ x.agendamento_id = S_A1},
          found : {TRUE},
          fail : {"GET experiments_templates", "POST experiments",
                  "PATCH experiments", "POST items_links", "GET experiments"},
          dbOk : {TRUE}]
    \cup [rid : {4}, r : {x \in ExperimentRequests : x.researcher_id = 4},
          found : {TRUE}, fail : {"GET items_types", "POST items"}, dbOk : {TRUE}]
    \cup [rid : {2}, r : {x \in ExperimentRequests : x.researcher_id = 2},
          found : {FALSE}, fail : {"none"}, dbOk : {TRUE}]
    \cup [rid : {2}, r : {x \in ExperimentRequests : x.researcher_id = 2},
          found : {TRUE}, fail : {"none"}, dbOk : {FALSE}]

\* the requests to the two reads: the header, the experiment and the call
\* eLabFTW refuses
ReadCalls ==
    [rid : GatewayIds, experiment_id : 1..(MaxExperiments + 1), fail : {"none"}]
    \cup [rid : {2, 3}, experiment_id : 1..(MaxExperiments + 1),
          fail : {"GET experiments"}]

\* researcher 4 has no item in eLabFTW (a row older than the item link)
InitGatewayResearchers ==
    InitResearchers @@ (4 :> Researcher(S_Caio, "pw4", "pesquisador", 0))

InitGateway ==
    /\ researchers = InitGatewayResearchers
    /\ experiments = InitExperiments
    /\ elab = InitElab
    /\ expBody = BodyHb
    /\ tplBody \in {BodyPlaceholders, BodyEmpty}
    /\ req = [op |-> "none"]
    /\ resp = [status |-> 0]
    /\ inflight = [c \in Clients |-> Idle]
    /\ norm = NormIdle

\* CreateRefusal with the header not compared to the body
CreateRefusal_NoMatch(rs, rid, r) ==
    IF rid \notin DOMAIN rs THEN 401
    ELSE IF rs[rid].role # "pesquisador" THEN 403
    ELSE 0

\* the status create_new_experiment refuses the requester with, 0 when it
\* lets the request through
CreateRefusal(rs, rid, r) ==
    IF rid \notin DOMAIN rs THEN 401
    ELSE IF rs[rid].role # "pesquisador" THEN 403
    ELSE IF rid # r.researcher_id THEN 403
    ELSE 0

Outcome(status, rs, es, e, experiment_id) ==
    [status |-> status, researchers |-> rs, experiments |-> es, elab |-> e,
     experiment_id |-> experiment_id]

\* create_new_experiment once the requester is let through: the status, the
\* stores it leaves and the experiment_id of the answer
Created(rs, es, e, template, c) ==
    LET legacy == rs[c.r.researcher_id].elab_item_id = 0
        item   == IF legacy
                  THEN register_researcher_item(e, rs[c.r.researcher_id].name, c.fail)
                  ELSE Returned(e, rs[c.r.researcher_id].elab_item_id)
        rs1    == IF legacy
                  THEN [rs EXCEPT ![c.r.researcher_id].elab_item_id = item.id]
                  ELSE rs
        exp    == create_experiment(item.elab, template, c.found, Title(c.r),
                                    VarsDict(c.r), c.fail)
        link   == link_experiment_to_item(exp.elab, exp.id, item.id, c.fail)
        reg    == register_experiment(es, rs1, c.r.agendamento_id, exp.id,
                                      c.r.researcher_id, c.dbOk)
    IN  IF item.raised THEN Outcome(400, rs, es, item.elab, 0)
        ELSE IF exp.raised THEN Outcome(400, rs1, es, exp.elab, 0)
        ELSE IF link.raised \/ ReadRaises(link.elab, exp.id, c.fail)
        THEN Outcome(400, rs1, es, link.elab, 0)
        ELSE Outcome(201, rs1, reg.es, link.elab, exp.id)

create_new_experiment(c) ==
    /\ Len(elab.experiments) < MaxExperiments
    /\ LET refusal == CreateRefusal(researchers, c.rid, c.r)
           out     == IF refusal # 0
                      THEN Outcome(refusal, researchers, experiments, elab, 0)
                      ELSE Created(researchers, experiments, elab, tplBody, c)
       IN  /\ researchers' = out.researchers
           /\ experiments' = out.experiments
           /\ elab' = out.elab
           /\ req' = [op |-> "create_experiment", rid |-> c.rid, r |-> c.r,
                      found |-> c.found, fail |-> c.fail, dbOk |-> c.dbOk,
                      before |-> [researchers |-> researchers,
                                  experiments |-> experiments, elab |-> elab]]
           /\ resp' = [status |-> out.status, experiment_id |-> out.experiment_id]
    /\ UNCHANGED <<expBody, tplBody, inflight, norm>>

\* the researcher_id of the row .first() gives for the experiment
OwnerOf(es, experiment_id) ==
    (CHOOSE e \in ByElabId(es, experiment_id) : TRUE).researcher_id

\* OwnershipRefusal with any local record enough
OwnershipRefusal_AnyRecord(rs, es, rid, experiment_id) ==
    IF rid \notin DOMAIN rs THEN 401
    ELSE IF rs[rid].role = "admin" THEN 0
    ELSE IF ByElabId(es, experiment_id) = {} THEN 404
    ELSE 0

\* the status the two reads refuse the requester with, 0 when they let the
\* request through
OwnershipRefusal(rs, es, rid, experiment_id) ==
    IF rid \notin DOMAIN rs THEN 401
    ELSE IF rs[rid].role = "admin" THEN 0
    ELSE IF ByElabId(es, experiment_id) = {} THEN 404
    ELSE IF OwnerOf(es, experiment_id) # rid THEN 403
    ELSE 0

\* the status a read answers with; notFound is the status given to an
\* experiment eLabFTW does not have
ReadStatus(c, notFound) ==
    IF OwnershipRefusal(researchers, experiments, c.rid, c.experiment_id) # 0
    THEN OwnershipRefusal(researchers, experiments, c.rid, c.experiment_id)
    ELSE IF c.fail = "GET experiments" THEN 400
    ELSE IF ~HasExperiment(elab, c.experiment_id) THEN notFound
    ELSE 200

\* the calls a read makes to eLabFTW
ReadElabCalls(c) ==
    IF OwnershipRefusal(researchers, experiments, c.rid, c.experiment_id) # 0
    THEN <<>> ELSE <<"GET">>

get_experiment_status(c) ==
    /\ req' = [op |-> "status", rid |-> c.rid, experiment_id |-> c.experiment_id,
               fail |-> c.fail]
    /\ resp' = [status |-> ReadStatus(c, 404), calls |-> ReadElabCalls(c)]
    /\ UNCHANGED <<researchers, experiments, elab, expBody, tplBody, inflight, norm>>

get_experiment_pdf(c) ==
    /\ req' = [op |-> "pdf", rid |-> c.rid, experiment_id |-> c.experiment_id,
               fail |-> c.fail]
    /\ resp' = [status |-> ReadStatus(c, 400), calls |-> ReadElabCalls(c)]
    /\ UNCHANGED <<researchers, experiments, elab, expBody, tplBody, inflight, norm>>

NextGateway ==
    \/ \E c \in CreateCalls : create_new_experiment(c)
    \/ \E c \in ReadCalls : get_experiment_status(c)
    \/ \E c \in ReadCalls : get_experiment_pdf(c)

SpecGateway == InitGateway /\ [][NextGateway]_vars

----------------------------------------------------------------------------
(* C21: status and PDF reads are owner-restricted: whatever experiments and *)
(* researchers have been registered, a requester whose role is not 'admin'  *)
(* obtains the status or PDF of an experiment only if the local record of   *)
(* that experiment has researcher_id equal to the requester's id (404 when  *)
(* there is no local record, 403 when it belongs to someone else); an admin *)
(* obtains it for any experiment.                                           *)

\* the last request was one of the two reads
C21_Read == req.op \in {"status", "pdf"}

\* the requester is a researcher of the table and not an admin
C21_Plain == req.rid \in DOMAIN researchers /\ researchers[req.rid].role # "admin"

C21_Admin == req.rid \in DOMAIN researchers /\ researchers[req.rid].role = "admin"

\* the local records of the experiment asked for
C21_Records == ByElabId(experiments, req.experiment_id)

\* A requester who is not an admin gets 200 only for an experiment whose local
\* record names it, 404 without a call to eLabFTW when there is no local
\* record and 403 without a call when the record names someone else; an admin
\* is never stopped by the ownership test and gets 200 for every experiment
\* eLabFTW has and serves.
C21_OwnerRestricted ==
    C21_Read
    => /\ (C21_Plain /\ resp.status = 200)
          => \E e \in C21_Records : e.researcher_id = req.rid
       /\ (C21_Plain /\ C21_Records = {})
          => (resp.status = 404 /\ resp.calls = <<>>)
       /\ (C21_Plain /\ C21_Records # {}
           /\ \A e \in C21_Records : e.researcher_id # req.rid)
          => (resp.status = 403 /\ resp.calls = <<>>)
       /\ C21_Admin => resp.calls = <<"GET">>
       /\ (C21_Admin /\ HasExperiment(elab, req.experiment_id) /\ req.fail = "none")
          => resp.status = 200

\* a pesquisador that has an experiment of its own asked for the PDF of an
\* experiment registered to another one and was refused
C21_Witness ==
    /\ req.op = "pdf" /\ C21_Plain /\ resp.status = 403
    /\ \E e \in C21_Records : e.researcher_id # req.rid
    /\ \E e \in experiments : e.researcher_id = req.rid

----------------------------------------------------------------------------
(* C22: creating an experiment request is allowed only to a known           *)
(* researcher with role 'pesquisador' whose researcher-id header equals the *)
(* researcher_id of the request body; otherwise the request is rejected     *)
(* (401 unknown, 403 wrong role or mismatch) and neither an eLabFTW         *)
(* experiment nor a local experiment record is created.                     *)

C22_Create == req.op = "create_experiment"

C22_Known == req.rid \in DOMAIN req.before.researchers

\* the requester the handler lets through
C22_Allowed ==
    /\ C22_Known
    /\ req.before.researchers[req.rid].role = "pesquisador"
    /\ req.rid = req.r.researcher_id

\* POST /experimentos succeeds only for an allowed requester; any other gets
\* 401 (unknown) or 403 (wrong role, or header different from the body) and
\* the request leaves eLabFTW and the local tables as they were.
C22_CreateRestricted ==
    C22_Create
    => /\ resp.status = 201 => C22_Allowed
       /\ ~C22_Known => resp.status = 401
       /\ (C22_Known /\ ~C22_Allowed) => resp.status = 403
       /\ ~C22_Allowed => /\ elab = req.before.elab
                          /\ experiments = req.before.experiments
                          /\ researchers = req.before.researchers

\* a pesquisador asked for an experiment in the name of another one
C22_Witness ==
    /\ C22_Create /\ C22_Known
    /\ req.before.researchers[req.rid].role = "pesquisador"
    /\ req.rid # req.r.researcher_id
    /\ resp.status = 403

----------------------------------------------------------------------------
(* C25: after POST /experimentos answers with success and an experiment_id, *)
(* the local store holds an experiment record whose elab_experiment_id is   *)
(* that id and whose researcher_id is the requester, so the requester's     *)
(* following status and PDF reads of that id pass the ownership check; this *)
(* holds also when the agendamento_id was already registered and when the   *)
(* local registration fails.                                                *)

\* POST /experimentos answered 201 with an experiment_id
C25_Success == req.op = "create_experiment" /\ resp.status = 201

C25_Original ==
    C25_Success
    => /\ \E e \in experiments : /\ e.elab_experiment_id = resp.experiment_id
                                /\ e.researcher_id = req.rid
       /\ OwnershipRefusal(researchers, experiments, req.rid, resp.experiment_id) = 0

----------------------------------------------------------------------------
(* C27: create_experiment is all-or-nothing towards eLabFTW: it either      *)
(* returns the id of an experiment whose body is the template body with     *)
(* every {{name}} of vars_dict substituted, or it raises and no new         *)
(* experiment exists in eLabFTW; in particular a missing template or a      *)
(* template with an empty body is detected before the experiment is         *)
(* created, and a failure of the body PATCH leaves no empty experiment      *)
(* behind.                                                                  *)

\* POST /experimentos reached create_experiment: the requester was let
\* through and had its item in eLabFTW
C27_Called ==
    /\ req.op = "create_experiment"
    /\ CreateRefusal(req.before.researchers, req.rid, req.r) = 0
    /\ req.before.researchers[req.rid].elab_item_id # 0

\* what create_experiment did in that request
C27_Call ==
    create_experiment(req.before.elab, tplBody, req.found, Title(req.r),
                      VarsDict(req.r), req.fail)

C27_Original ==
    C27_Called
    => IF C27_Call.raised
       THEN elab.experiments = req.before.elab.experiments
       ELSE /\ Len(elab.experiments) = Len(req.before.elab.experiments) + 1
            /\ elab.experiments[C27_Call.id].body
               = Substituted(Raw(tplBody), VarsDict(req.r))
            /\ \A i \in 1..Len(VarsDict(req.r)) :
                  ~Contains(elab.experiments[C27_Call.id].body,
                            Token(VarsDict(req.r)[i].k))

----------------------------------------------------------------------------
(* C26: when two update-results requests for the same experiment carry      *)
(* patches for different rows, then after both have completed, in every     *)
(* interleaving of their read of the body and their write of the body, the  *)
(* stored body has the new value of both rows (no update is lost).          *)

\* the texts of the value cells of the rows of the first table whose label
\* is label, trimmed and whatever the case
C26_Values(body, label) ==
    {get_text(Col(FirstTableRows(body)[i], 2)) :
        i \in {j \in 1..Len(FirstTableRows(body)) :
                  /\ DataRow(FirstTableRows(body)[j])
                  /\ CaseMatch(label, LabelOf(FirstTableRows(body)[j]))}}

\* client a wrote Glicose and client b wrote Ureia, both with success and
\* both on a parsed body that has the two rows
C26_BothWrote(a, b) ==
    /\ \A c \in {a, b} : /\ inflight[c].pc = "done" /\ inflight[c].status = 200
                         /\ inflight[c].op = "update-results"
                         /\ ~inflight[c].raises
                         /\ C26_Values(inflight[c].input, S_Glicose) # {}
                         /\ C26_Values(inflight[c].input, S_Ureia) # {}
    /\ inflight[a].results = PatchGlicose
    /\ inflight[b].results = PatchUreia

C26_Original ==
    \A a, b \in Clients :
        C26_BothWrote(a, b)
        => /\ C26_Values(expBody, S_Glicose) = {S_V95}
           /\ C26_Values(expBody, S_Ureia) = {S_V9}

----------------------------------------------------------------------------
(* POST /pesquisadores and POST /initialize run concurrently, each in a     *)
(* thread of the pool with its own database session.  A call is split at    *)
(* its queries and its requests to eLabFTW: between two steps of a call the *)
(* other clients run.                                                       *)

S_Blank == <<" ">>

\* calls a client makes, one after the other
MaxCalls == 2

\* the requests: POST /pesquisadores with a body, POST /initialize
RegistrationCalls ==
    [op : {"create_researcher"}, name : {S_Ana, S_Caio}, password : {"pw8"},
     role : {StrVal(S_RolePesquisador)}]
    \cup [op : {"create_researcher"}, name : {S_Ana, S_Caio}, password : {"pw9"},
          role : {StrVal(S_RoleAdmin)}]
    \cup [op : {"create_researcher"}, name : {S_Blank}, password : {"pw8"},
          role : {None}]
    \cup [op : {"initialize"}, name : {<<>>}, password : {""}, role : {None}]

\* a client between two calls, n calls made
Waiting(n) ==
    [pc |-> "idle", n |-> n, op |-> "none", name |-> <<>>, password |-> "",
     role |-> None, seen |-> FALSE, types |-> <<>>, type_id |-> 0, item_id |-> 0,
     existing |-> 0, changed |-> FALSE, status |-> 0]

\* a new installation, or one with researchers whose item type was titled
\* by hand
InitRegistration ==
    /\ \/ researchers = <<>> /\ elab = [InitElab EXCEPT !.items_types = <<>>,
                                                        !.items = <<>>]
       \/ /\ researchers = InitResearchers
          /\ elab = [InitElab EXCEPT !.items_types[1].title = S_PesquisadorPadded]
    /\ experiments = InitExperiments
    /\ expBody = BodyHb
    /\ tplBody = BodyHb
    /\ req = [op |-> "none"]
    /\ resp = [status |-> 0]
    /\ inflight = [c \in Clients |-> Waiting(0)]
    /\ norm = NormIdle

Answered(call, status) == [call EXCEPT !.pc = "done", !.status = status]

\* create_researcher up to its query of the name: a name the table has is
\* refused; initialize starts with no query
call_received(c, call) ==
    /\ inflight[c].pc \in {"idle", "done"}
    /\ inflight[c].n < MaxCalls
    /\ LET new == [Waiting(inflight[c].n + 1) EXCEPT
                       !.op = call.op, !.name = call.name,
                       !.password = call.password, !.role = call.role]
       IN  inflight' = [inflight EXCEPT ![c] =
              IF call.op = "create_researcher" /\ ByName(researchers, call.name) # 0
              THEN Answered([new EXCEPT !.seen = TRUE], 400)
              ELSE [new EXCEPT !.pc = "received"]]
    /\ UNCHANGED <<researchers, experiments, elab, expBody, tplBody, req, resp, norm>>

\* register_researcher_item refuses a blank name; ensure_item_type_researcher
\* lists the item types and returns the one it finds
call_list_types(c) ==
    /\ inflight[c].pc = "received"
    /\ inflight' = [inflight EXCEPT ![c] =
          IF @.op = "create_researcher" /\ strip(@.name) = <<>>
          THEN Answered(@, 400)
          ELSE IF FoundItemType(elab.items_types) = 0
          THEN [@ EXCEPT !.pc = "listed", !.types = elab.items_types]
          ELSE IF @.op = "initialize"
          THEN Answered([@ EXCEPT !.types = elab.items_types,
                                  !.type_id = FoundItemType(elab.items_types)], 200)
          ELSE [@ EXCEPT !.pc = "typed", !.types = elab.items_types,
                         !.type_id = FoundItemType(elab.items_types)]]
    /\ UNCHANGED <<researchers, experiments, elab, expBody, tplBody, req, resp, norm>>

\* ensure_item_type_researcher, its listing without the type, creates it
call_post_type(c) ==
    /\ inflight[c].pc = "listed"
    /\ LET ensured == EnsureFromListing(elab, inflight[c].types, "none")
       IN  /\ elab' = ensured.elab
           /\ inflight' = [inflight EXCEPT ![c] =
                  IF @.op = "initialize"
                  THEN Answered([@ EXCEPT !.type_id = ensured.id], 200)
                  ELSE [@ EXCEPT !.pc = "typed", !.type_id = ensured.id]]
    /\ UNCHANGED <<researchers, experiments, expBody, tplBody, req, resp, norm>>

\* register_researcher_item creates the item
call_post_item(c) ==
    /\ inflight[c].pc = "typed"
    /\ elab' = PostItem(elab, inflight[c].name, inflight[c].type_id)
    /\ inflight' = [inflight EXCEPT ![c].pc = "itemed",
                                    ![c].item_id = Len(elab.items) + 1]
    /\ UNCHANGED <<researchers, experiments, expBody, tplBody, req, resp, norm>>

\* register_researcher queries the name
call_query(c) ==
    /\ inflight[c].pc = "itemed"
    /\ inflight' = [inflight EXCEPT
                       ![c].pc = "queried",
                       ![c].existing = ByName(researchers, inflight[c].name),
                       ![c].seen = ByName(researchers, inflight[c].name) # 0]
    /\ UNCHANGED <<researchers, experiments, elab, expBody, tplBody, req, resp, norm>>

\* register_researcher updates or inserts the row and commits, and
\* create_researcher answers
call_save(c) ==
    /\ inflight[c].pc = "queried"
    /\ LET done == register_researcher(researchers, inflight[c].existing,
                                       inflight[c].name, inflight[c].password,
                                       inflight[c].item_id, inflight[c].role, TRUE)
       IN  /\ researchers' = done.rs
           /\ inflight' = [inflight EXCEPT ![c] =
                  Answered([@ EXCEPT !.changed =
                                /\ inflight[c].existing # 0
                                /\ done.rs[inflight[c].existing]
                                   # researchers[inflight[c].existing]],
                           IF done.id = 0 THEN 500 ELSE 201)]
    /\ UNCHANGED <<experiments, elab, expBody, tplBody, req, resp, norm>>

NextRegistration ==
    \/ \E c \in Clients, call \in RegistrationCalls : call_received(c, call)
    \/ \E c \in Clients : call_list_types(c)
    \/ \E c \in Clients : call_post_type(c)
    \/ \E c \in Clients : call_post_item(c)
    \/ \E c \in Clients : call_query(c)
    \/ \E c \in Clients : call_save(c)

SpecRegistration == InitRegistration /\ [][NextRegistration]_vars

----------------------------------------------------------------------------
(* C24: researcher names stay unique and creation of a duplicate has no     *)
(* side effect: after any sequence (or interleaving) of POST /pesquisadores *)
(* requests there is at most one local researcher per name, and a request   *)
(* whose name already exists is rejected with 400 without creating an item  *)
(* in eLabFTW and without changing the existing researcher's password, role *)
(* or elab_item_id.                                                         *)

\* the call of client c is a POST /pesquisadores that was answered and that
\* found, in one of its two queries, a researcher with its name
C24_Duplicate(c) ==
    /\ inflight[c].op = "create_researcher" /\ inflight[c].pc = "done"
    /\ inflight[c].seen

C24_Original ==
    /\ \A i, j \in DOMAIN researchers :
          i # j => researchers[i].name # researchers[j].name
    /\ \A c \in Clients :
          C24_Duplicate(c) => /\ inflight[c].status = 400
                              /\ inflight[c].item_id = 0
                              /\ ~inflight[c].changed

----------------------------------------------------------------------------
(* C28: ensure_item_type_researcher is idempotent: it creates the           *)
(* 'Pesquisador' item type only when no item type with that title           *)
(* (case-insensitive, trimmed) exists and otherwise only returns the        *)
(* existing id, so after any number of calls, sequential or concurrent,     *)
(* eLabFTW holds at most one item type titled 'Pesquisador' created by this *)
(* code.                                                                    *)

\* the call of client c has the id ensure_item_type_researcher returned
C28_Ensured(c) == inflight[c].type_id # 0

C28_Original ==
    /\ \A c \in Clients :
          (C28_Ensured(c) /\ FoundItemType(inflight[c].types) # 0)
          => inflight[c].type_id = FoundItemType(inflight[c].types)
    /\ Cardinality(TitledPesquisador(elab.items_types)) <= 1

====
